---- MODULE Spec2Model ----
(***************************************************************************)
(* Model of the multi-user todo REST backend (src/backend): the session    *)
(* verifier and ownership guard of api/deps.py, the six task endpoints of  *)
(* api/tasks.py and the exception handlers of main.py.                     *)
(*                                                                         *)
(* One action is one HTTP request, handled in one database transaction.    *)
(* Time is the value read from datetime.utcnow(); the clock only advances. *)
(***************************************************************************)
EXTENDS Integers, Sequences, FiniteSets, TLC

(***************************************************************************)
(* Bounds of the model.                                                    *)
(***************************************************************************)
MaxTime == 1        \* the clock runs over 0..MaxTime
MaxTasks == 2       \* number of ids the tasks sequence hands out

Times == 0..MaxTime
TaskIds == 1..MaxTasks         \* ids a request may address, issued yet or not

(***************************************************************************)
(* Strings.  A string is one of a few named values; StrLen is len().       *)
(* None is Python's None (an omitted optional field).                      *)
(***************************************************************************)
None == "<None>"
T200 == "<title of 200 chars>"
T201 == "<title of 201 chars>"
D1001 == "<description of 1001 chars>"

StrLen(s) ==
    CASE s = "" -> 0
      [] s = "a" -> 1
      [] s = "x" -> 1
      [] s = T200 -> 200
      [] s = T201 -> 201
      [] s = D1001 -> 1001

\* Request bodies <<title, description>> of POST and PUT, valid and invalid.
CreateInputs ==
    { <<"a", None>>, <<T200, "x">>,
      <<None, "x">>, <<"", None>>, <<T201, None>>, <<"a", D1001>> }
UpdateInputs ==
    { <<None, None>>, <<T200, None>>, <<None, "x">>, <<T200, "x">>,
      <<"", None>>, <<T201, "x">>, <<None, D1001>> }
StatusInputs == {"all", "pending", "completed", "bogus"}

(***************************************************************************)
(* The session table of Better Auth (read-only for this backend).          *)
(* expiresAt is a time, or NoExpiry for a NULL column value.               *)
(***************************************************************************)
NoExpiry == -1

SessionTable ==
    { [token |-> "tokA", userId |-> "alice", expiresAt |-> MaxTime - 1],
      [token |-> "tokB", userId |-> "bob",   expiresAt |-> NoExpiry],
      [token |-> "tokN", userId |-> None,    expiresAt |-> NoExpiry] }

Tokens == {r.token : r \in SessionTable} \cup {"tokX"}
PathUsers == {"alice", "bob"}

\* Credentials <<bearer token, user_id of the path>> of a request: those the
\* guard lets through while the session lasts, and those it stops.
OwnCreds == { <<"tokA", "alice">>, <<"tokB", "bob">> }
OtherCreds ==
    { <<"tokB", "alice">>, <<"tokN", "bob">>, <<"tokX", "alice">> }
Creds == OwnCreds \cup OtherCreds

VARIABLES
    tasks,      \* the tasks table: a set of rows
    next_id,    \* next value of the tasks id sequence
    now,        \* datetime.utcnow()
    req,        \* the last request: endpoint, bearer token, path user, task id
    resp,       \* the response to it
    deleted,    \* history: the task ids a DELETE has answered 204 for
    chat_threads,       \* the table chat_threads
    chat_messages,      \* the table chat_messages
    next_message_id,    \* next value of the sequence of chat_messages.id
    _todos,     \* TodoManager._todos: the dictionary from id to TodoItem
    _next_id,   \* TodoManager._next_id
    issued,     \* history: the ids add_todo has returned, in order
    requests,   \* task requests in progress, one per server process
    connections \* add_thread_item calls in progress, one per connection

chat_vars == <<chat_threads, chat_messages, next_message_id>>
cli_vars == <<_todos, _next_id, issued>>
step_vars == <<requests, connections>>
vars == <<tasks, next_id, now, req, resp, deleted, chat_threads, chat_messages,
          next_message_id, _todos, _next_id, issued, requests, connections>>

(***************************************************************************)
(* Results of dependencies: a value, or an HTTPException.                  *)
(***************************************************************************)
Ok(v) == [ok |-> TRUE, val |-> v, status |-> 200, detail |-> ""]
HTTPException(s, d) == [ok |-> FALSE, val |-> "", status |-> s, detail |-> d]

(***************************************************************************)
(* api/deps.py: verify_session_token, at the time utcnow the request is    *)
(* served.  Looks the bearer token up in the session table; 401 when no    *)
(* row matches or the row has expired.  A row whose expiresAt is NULL      *)
(* skips the expiry check.                                                 *)
(***************************************************************************)
SessionRow(token) == CHOOSE r \in SessionTable : r.token = token

verify_session_token(utcnow, token) ==
    IF ~(\E r \in SessionTable : r.token = token)
    THEN HTTPException(401, "Invalid token")
    ELSE LET row == SessionRow(token) IN
         IF row.expiresAt # NoExpiry /\ utcnow > row.expiresAt
         THEN HTTPException(401, "Session expired")
         ELSE Ok([userId |-> row.userId, token |-> row.token,
                  expiresAt |-> row.expiresAt])

(***************************************************************************)
(* api/deps.py: verify_user_ownership(user_id, session_data).              *)
(***************************************************************************)
\* The guard with its two checks in the other order.
verify_ownership_MismatchFirst(user_id, session_user_id) ==
    IF session_user_id # user_id
    THEN HTTPException(403, "User ID mismatch")
    ELSE IF session_user_id = None \/ session_user_id = ""
    THEN HTTPException(401, "Missing userId in session")
    ELSE Ok(user_id)

verify_ownership(user_id, session_user_id) ==
    IF session_user_id = None \/ session_user_id = ""
    THEN HTTPException(401, "Missing userId in session")
    ELSE IF session_user_id # user_id
    THEN HTTPException(403, "User ID mismatch")
    ELSE Ok(user_id)

verify_user_ownership(utcnow, user_id, token) ==
    LET session_data == verify_session_token(utcnow, token) IN
    IF ~session_data.ok THEN session_data
    ELSE verify_ownership(user_id, session_data.val.userId)

(***************************************************************************)
(* main.py: http_exception_handler and the responses of the endpoints.     *)
(* A response is a status, the shape of its JSON body, the error code and  *)
(* message of an ErrorResponse, and the task rows it carries.              *)
(***************************************************************************)
ErrorType(status_code) ==
    CASE status_code = 400 -> "validation_error"
      [] status_code = 401 -> "unauthorized"
      [] status_code = 403 -> "forbidden"
      [] status_code = 404 -> "not_found"
      [] status_code = 500 -> "internal_server_error"
      [] OTHER -> "error"

http_exception_handler(exc) ==
    [status |-> exc.status, shape |-> "ErrorResponse",
     error |-> ErrorType(exc.status), message |-> exc.detail, body |-> <<>>]

\* FastAPI's own handler of RequestValidationError: no handler of main.py
\* applies, the body is {"detail": [...]}.
RequestValidationError ==
    [status |-> 422, shape |-> "detail", error |-> "", message |-> "",
     body |-> <<>>]

\* general_exception_handler: whatever the exception, the same body.
general_exception_handler ==
    [status |-> 500, shape |-> "ErrorResponse",
     error |-> "internal_server_error",
     message |-> "An unexpected error occurred", body |-> <<>>]

TaskResponse(status_code, task) ==
    [status |-> status_code, shape |-> "TaskResponse", error |-> "",
     message |-> "", body |-> <<task>>]

TaskListResponse(rows) ==
    [status |-> 200, shape |-> "TaskList", error |-> "", message |-> "",
     body |-> rows]

NoContent ==
    [status |-> 204, shape |-> "empty", error |-> "", message |-> "",
     body |-> <<>>]

(***************************************************************************)
(* schemas/task.py: the field constraints of TaskCreate and TaskUpdate.    *)
(***************************************************************************)
TitleMinLen == 1
TitleMaxLen == 200
DescMaxLen == 1000

\* The title constraint with max_length left out.
TitleValid_NoMax(title) == StrLen(title) >= TitleMinLen

TitleValid(title) == StrLen(title) >= TitleMinLen /\ StrLen(title) <= TitleMaxLen
DescValid(description) == StrLen(description) <= DescMaxLen

TaskCreateValid(title, description) ==
    /\ title # None
    /\ TitleValid(title)
    /\ description # None => DescValid(description)

TaskUpdateValid(title, description) ==
    /\ title # None => TitleValid(title)
    /\ description # None => DescValid(description)

(***************************************************************************)
(* The database as a request's session sees it: the tasks table and the    *)
(* id sequence.  An endpoint is a function from the session, the time and  *)
(* its inputs to an outcome: the response, and the database it leaves      *)
(* behind when its transaction ends.  A request stopped by a dependency or *)
(* by validation never runs the handler body and leaves the database       *)
(* alone.                                                                  *)
(***************************************************************************)
Database(table, seq) == [tasks |-> table, next_id |-> seq]

Outcome(response, session) == [resp |-> response, db |-> session]

Rejected(session, exc) == Outcome(http_exception_handler(exc), session)

Unprocessable(session) == Outcome(RequestValidationError, session)

(***************************************************************************)
(* The owner-scoped lookup used by get, update, toggle and delete:         *)
(* select(Task).where(Task.id == task_id, Task.user_id == user_id).first() *)
(***************************************************************************)
\* The lookup with the owner condition forgotten.
Lookup_ById(session, task_id, user_id) ==
    {t \in session.tasks : t.id = task_id}

Lookup(session, task_id, user_id) ==
    {t \in session.tasks : t.id = task_id /\ t.user_id = user_id}

TheTask(session, task_id, user_id) ==
    CHOOSE t \in Lookup(session, task_id, user_id) : TRUE

NotFound == HTTPException(404, "Task not found")

(***************************************************************************)
(* POST /api/{user_id}/tasks                                               *)
(***************************************************************************)
\* The row numbered by the count of rows instead of by the id sequence.
NewTask_CountId(session, utcnow, user_id, title, description) ==
    [id |-> Cardinality(session.tasks) + 1, user_id |-> user_id,
     title |-> title, description |-> description, completed |-> FALSE,
     created_at |-> utcnow, updated_at |-> utcnow]

NewTask(session, utcnow, user_id, title, description) ==
    [id |-> session.next_id, user_id |-> user_id, title |-> title,
     description |-> description, completed |-> FALSE,
     created_at |-> utcnow, updated_at |-> utcnow]

create_task(session, utcnow, token, user_id, title, description) ==
    LET auth == verify_user_ownership(utcnow, user_id, token) IN
    IF ~auth.ok THEN Rejected(session, auth)
    ELSE IF ~TaskCreateValid(title, description) THEN Unprocessable(session)
    ELSE LET task == NewTask(session, utcnow, auth.val, title, description) IN
         Outcome(TaskResponse(201, task),
                 Database(session.tasks \cup {task}, session.next_id + 1))

(***************************************************************************)
(* GET /api/{user_id}/tasks?status=...                                     *)
(* The query is WHERE user_id = :user_id [AND completed = ...]             *)
(* ORDER BY created_at DESC; rows with equal created_at come back in any   *)
(* order the database likes, so list_tasks is the set of outcomes.         *)
(***************************************************************************)
StatusValid(status_filter) == status_filter \in {"all", "pending", "completed"}

\* The query with the pending and completed conditions exchanged.
Selected_Swapped(session, user_id, status_filter) ==
    {t \in session.tasks :
        /\ t.user_id = user_id
        /\ status_filter = "pending" => t.completed = TRUE
        /\ status_filter = "completed" => t.completed = FALSE}

Selected(session, user_id, status_filter) ==
    {t \in session.tasks :
        /\ t.user_id = user_id
        /\ status_filter = "pending" => t.completed = FALSE
        /\ status_filter = "completed" => t.completed = TRUE}

\* The list ordered by the time of the last modification.
OrderKey_Updated(t) == t.updated_at

OrderKey(t) == t.created_at

OrderedDesc(rows) ==
    \A i, j \in 1..Len(rows) : i < j => OrderKey(rows[i]) >= OrderKey(rows[j])

Orderings(S) ==
    {rows \in [1..Cardinality(S) -> S] :
        /\ \A i, j \in 1..Cardinality(S) : i # j => rows[i] # rows[j]
        /\ OrderedDesc(rows)}

list_tasks(session, utcnow, token, user_id, status_filter) ==
    LET auth == verify_user_ownership(utcnow, user_id, token) IN
    IF ~auth.ok THEN {Rejected(session, auth)}
    ELSE IF ~StatusValid(status_filter) THEN {Unprocessable(session)}
    ELSE {Outcome(TaskListResponse(rows), session) :
            rows \in Orderings(Selected(session, auth.val, status_filter))}

(***************************************************************************)
(* GET /api/{user_id}/tasks/{task_id}                                      *)
(***************************************************************************)
\* get_task looking the row up by id alone and telling the caller when it
\* belongs to somebody else.
get_task_Forbidden(session, utcnow, token, user_id, task_id) ==
    LET auth == verify_user_ownership(utcnow, user_id, token) IN
    IF ~auth.ok THEN Rejected(session, auth)
    ELSE IF ~(\E t \in session.tasks : t.id = task_id)
    THEN Rejected(session, NotFound)
    ELSE IF Lookup(session, task_id, auth.val) = {}
    THEN Rejected(session, HTTPException(403, "Task belongs to another user"))
    ELSE Outcome(TaskResponse(200, TheTask(session, task_id, auth.val)),
                 session)

get_task(session, utcnow, token, user_id, task_id) ==
    LET auth == verify_user_ownership(utcnow, user_id, token) IN
    IF ~auth.ok THEN Rejected(session, auth)
    ELSE IF Lookup(session, task_id, auth.val) = {}
    THEN Rejected(session, NotFound)
    ELSE Outcome(TaskResponse(200, TheTask(session, task_id, auth.val)),
                 session)

(***************************************************************************)
(* PUT /api/{user_id}/tasks/{task_id}                                      *)
(***************************************************************************)
\* The update that writes both fields of the body, supplied or not.
UpdatedTask_Overwrite(task, utcnow, title, description) ==
    [task EXCEPT
        !.title = IF title # None THEN title ELSE @,
        !.description = description,
        !.updated_at = utcnow]

UpdatedTask(task, utcnow, title, description) ==
    [task EXCEPT
        !.title = IF title # None THEN title ELSE @,
        !.description = IF description # None THEN description ELSE @,
        !.updated_at = utcnow]

\* update_task refreshing updated_at of the row of that id before it finds
\* that the row is not the caller's.
update_task_TouchFirst(session, utcnow, token, user_id, task_id, title, description) ==
    LET auth == verify_user_ownership(utcnow, user_id, token) IN
    IF ~auth.ok THEN Rejected(session, auth)
    ELSE IF ~TaskUpdateValid(title, description) THEN Unprocessable(session)
    ELSE IF Lookup(session, task_id, auth.val) = {}
    THEN Outcome(http_exception_handler(NotFound),
                 Database({IF t.id = task_id
                           THEN [t EXCEPT !.updated_at = utcnow]
                           ELSE t : t \in session.tasks},
                          session.next_id))
    ELSE LET task == TheTask(session, task_id, auth.val)
             new == UpdatedTask(task, utcnow, title, description) IN
         Outcome(TaskResponse(200, new),
                 Database((session.tasks \ {task}) \cup {new}, session.next_id))

update_task(session, utcnow, token, user_id, task_id, title, description) ==
    LET auth == verify_user_ownership(utcnow, user_id, token) IN
    IF ~auth.ok THEN Rejected(session, auth)
    ELSE IF ~TaskUpdateValid(title, description) THEN Unprocessable(session)
    ELSE IF Lookup(session, task_id, auth.val) = {}
    THEN Rejected(session, NotFound)
    ELSE LET task == TheTask(session, task_id, auth.val)
             new == UpdatedTask(task, utcnow, title, description) IN
         Outcome(TaskResponse(200, new),
                 Database((session.tasks \ {task}) \cup {new}, session.next_id))

(***************************************************************************)
(* PATCH /api/{user_id}/tasks/{task_id}/complete                           *)
(***************************************************************************)
\* The toggle that marks the task completed whatever it was.
ToggledTask_Complete(task, utcnow) ==
    [task EXCEPT !.completed = TRUE, !.updated_at = utcnow]

ToggledTask(task, utcnow) ==
    [task EXCEPT !.completed = ~@, !.updated_at = utcnow]

\* toggle_completion behind the session check alone, without the comparison
\* of the path user with the session's user.
toggle_completion_NoGuard(session, utcnow, token, user_id, task_id) ==
    LET auth == verify_session_token(utcnow, token) IN
    IF ~auth.ok THEN Rejected(session, auth)
    ELSE IF Lookup(session, task_id, user_id) = {}
    THEN Rejected(session, NotFound)
    ELSE LET task == TheTask(session, task_id, user_id)
             new == ToggledTask(task, utcnow) IN
         Outcome(TaskResponse(200, new),
                 Database((session.tasks \ {task}) \cup {new}, session.next_id))

toggle_completion(session, utcnow, token, user_id, task_id) ==
    LET auth == verify_user_ownership(utcnow, user_id, token) IN
    IF ~auth.ok THEN Rejected(session, auth)
    ELSE IF Lookup(session, task_id, auth.val) = {}
    THEN Rejected(session, NotFound)
    ELSE LET task == TheTask(session, task_id, auth.val)
             new == ToggledTask(task, utcnow) IN
         Outcome(TaskResponse(200, new),
                 Database((session.tasks \ {task}) \cup {new}, session.next_id))

(***************************************************************************)
(* DELETE /api/{user_id}/tasks/{task_id}                                   *)
(***************************************************************************)
\* delete_task looking the row up before it asks the guard.
delete_task_LookupFirst(session, utcnow, token, user_id, task_id) ==
    LET auth == verify_user_ownership(utcnow, user_id, token) IN
    IF Lookup(session, task_id, user_id) = {}
    THEN Rejected(session, NotFound)
    ELSE IF ~auth.ok THEN Rejected(session, auth)
    ELSE Outcome(NoContent,
                 Database(session.tasks \ {TheTask(session, task_id, auth.val)},
                          session.next_id))

\* delete_task answering 204 and leaving the row where it is.
delete_task_Keep(session, utcnow, token, user_id, task_id) ==
    LET auth == verify_user_ownership(utcnow, user_id, token) IN
    IF ~auth.ok THEN Rejected(session, auth)
    ELSE IF Lookup(session, task_id, auth.val) = {}
    THEN Rejected(session, NotFound)
    ELSE Outcome(NoContent, session)

delete_task(session, utcnow, token, user_id, task_id) ==
    LET auth == verify_user_ownership(utcnow, user_id, token) IN
    IF ~auth.ok THEN Rejected(session, auth)
    ELSE IF Lookup(session, task_id, auth.val) = {}
    THEN Rejected(session, NotFound)
    ELSE Outcome(NoContent,
                 Database(session.tasks \ {TheTask(session, task_id, auth.val)},
                          session.next_id))

(***************************************************************************)
(* A request of the task API during which a statement on the database      *)
(* fails, whatever the endpoint.  Inside verify_session_token the          *)
(* exception is caught and answered as an unknown token; inside the        *)
(* endpoint, which runs once the guard has passed, nothing catches it and  *)
(* general_exception_handler answers.  Nothing is committed.               *)
(***************************************************************************)
FaultPoints == {"session", "tasks"}

storage_failure(session, utcnow, token, user_id, point) ==
    IF point = "session"
    THEN Rejected(session, HTTPException(401, "Invalid token"))
    ELSE LET auth == verify_user_ownership(utcnow, user_id, token) IN
         IF ~auth.ok THEN Rejected(session, auth)
         ELSE Outcome(general_exception_handler, session)

(***************************************************************************)
(* chatbot-backend, app/auth/jwt.py: verify_token.  The Authorization      *)
(* header is the sequence of its scheme prefix and its credentials; <<>>   *)
(* is a header that is absent or empty.  Same session table, same checks.  *)
(***************************************************************************)
Bearer(token) == <<"Bearer ", token>>

\* verify_token returning the userId of the row without looking at expiresAt.
verify_token_NoExpiry(utcnow, authorization) ==
    IF Len(authorization) # 2 \/ authorization[1] # "Bearer "
    THEN HTTPException(401, "Missing authorization token")
    ELSE LET token == authorization[2] IN
         IF ~(\E r \in SessionTable : r.token = token)
         THEN HTTPException(401, "Invalid token")
         ELSE Ok(SessionRow(token).userId)

verify_token(utcnow, authorization) ==
    IF Len(authorization) # 2 \/ authorization[1] # "Bearer "
    THEN HTTPException(401, "Missing authorization token")
    ELSE LET token == authorization[2] IN
         IF ~(\E r \in SessionTable : r.token = token)
         THEN HTTPException(401, "Invalid token")
         ELSE LET result == SessionRow(token) IN
              IF result.expiresAt # NoExpiry /\ utcnow > result.expiresAt
              THEN HTTPException(401, "Session expired")
              ELSE Ok(result.userId)

(***************************************************************************)
(* chatbot-backend, app/main.py: POST /api/chatkit.  What the ChatKit      *)
(* server does with a body is not modelled: process either returns a       *)
(* result or raises one of the exceptions the endpoint tells apart.        *)
(***************************************************************************)
Returns == [raises |-> "", text |-> ""]

Raises(exception, text) == [raises |-> exception, text |-> text]

\* str(e) of an exception: empty, or a text that names server internals.
ExceptionTexts == {"", "connection to 10.0.0.5 refused"}

ProcessResults ==
    {Returns}
    \cup {Raises(exception, text) :
            exception \in {"SQLAlchemyError", "HTTPStatusError",
                           "ValidationError", "Exception"},
            text \in ExceptionTexts}

ChatBodies == {"", "msg"}

\* FastAPI's own handler of HTTPException: the body is {"detail": ...}.
DetailResponse(exc) ==
    [status |-> exc.status, shape |-> "detail", error |-> "",
     message |-> exc.detail, body |-> <<>>]

\* chatbot_exception_handler: the body is exc.to_dict(), which has the key
\* "details" only when details is a text that is not empty.
ChatbotError(type, status_code, message, details) ==
    [status |-> status_code, shape |-> "ChatbotError", error |-> type,
     message |-> message, body |-> <<>>,
     details |-> IF details # "" THEN details ELSE None]

ChatResult ==
    [status |-> 200, shape |-> "chatkit", error |-> "", message |-> "",
     body |-> <<>>]

chatkit_endpoint(session, utcnow, token, body, result) ==
    LET user_id == verify_token(utcnow, Bearer(token)) IN
    IF ~user_id.ok THEN Outcome(DetailResponse(user_id), session)
    ELSE IF body = ""
    THEN Outcome(DetailResponse(
                    HTTPException(400, "Request body cannot be empty.")),
                 session)
    ELSE CASE result.raises = "" -> Outcome(ChatResult, session)
           [] result.raises = "SQLAlchemyError" ->
                Outcome(ChatbotError("StorageError", 500,
                    "Could not process your request due to a database issue.",
                    result.text),
                    session)
           [] result.raises = "HTTPStatusError" ->
                Outcome(ChatbotError("MCPError", 502,
                    "There was an issue communicating with a required service.",
                    result.text),
                    session)
           [] result.raises = "ValidationError" ->
                Outcome(DetailResponse(
                            HTTPException(400, "Invalid message format: "
                                               \o result.text)),
                        session)
           [] OTHER ->
                Outcome(ChatbotError("AgentError", 500,
                    "An unexpected error occurred while processing your request.",
                    result.text),
                    session)

\* verify_token when the connection or the query on the session table
\* fails: the exception is caught and answered as an unknown token.
chatkit_session_failure(session) ==
    Outcome(DetailResponse(HTTPException(401, "Invalid token")), session)

(***************************************************************************)
(* chatbot-backend, app/store/neon_store.py: NeonPostgresStore.  The store *)
(* is the tables chat_threads and chat_messages and the sequence of the    *)
(* message ids; a method is a function from the store, the caller's        *)
(* context.user_id and its arguments to a result: the value returned or    *)
(* the NotFoundError raised, and the store the call leaves behind.         *)
(* chat_messages.thread_id references chat_threads.id ON DELETE CASCADE.   *)
(***************************************************************************)
Store(threads, messages, seq) ==
    [threads |-> threads, messages |-> messages, next_message_id |-> seq]

Returned(value, store) ==
    [ok |-> TRUE, error |-> <<>>, data |-> value, store |-> store]

NotFoundError(message, store) ==
    [ok |-> FALSE, error |-> message, data |-> <<>>, store |-> store]

\* f"Thread {thread_id} not found", f"Message {item_id} not found"
ThreadNotFound(store, thread_id) ==
    NotFoundError(<<"Thread", thread_id, "not found">>, store)
MessageNotFound(store, item_id) ==
    NotFoundError(<<"Message", item_id, "not found">>, store)

\* str(row['id']) and int(after): the decimal string of a message id.
str(n) == <<"decimal", n>>
int(string) == string[2]
\* None where a decimal string is expected.
NoItemId == <<>>

\* The column content.  json.dumps(content) is a JSON text and json.loads
\* gives the content back; str(item), stored for an item that is neither a
\* user nor an assistant message, is no JSON text and json.loads raises
\* JSONDecodeError on it.
dumps(content) == <<"json", content>>
ItemText(item_type) == <<"str", item_type>>
IsJson(string) == string[1] = "json"
loads(string) == string[2]

JSONDecodeError(store) ==
    [ok |-> FALSE, error |-> <<"JSONDecodeError">>, data |-> <<>>,
     store |-> store]

ThreadMetadata(row) ==
    [id |-> row.id, created_at |-> row.created_at,
     updated_at |-> row.updated_at]

Page(data, has_more, after) ==
    [data |-> data, has_more |-> has_more, after |-> after]

\* rows[:limit]
Take(rows, limit) == SubSeq(rows, 1, IF Len(rows) < limit THEN Len(rows) ELSE limit)

\* The sequences a SELECT ... ORDER BY column ASC|DESC can return for the
\* set S of rows: rows equal in the column come in any order.
Sorted(S, column, order) ==
    {rows \in [1..Cardinality(S) -> S] :
        /\ \A i, j \in 1..Cardinality(S) : i # j => rows[i] # rows[j]
        /\ \A i, j \in 1..Cardinality(S) :
            i < j => IF order = "desc" THEN rows[i][column] >= rows[j][column]
                                       ELSE rows[i][column] <= rows[j][column]}

\* The columns of ORDER BY.
UpdatedAt == "updated_at"
CreatedAt == "created_at"

EmptyThreadId == ""

load_thread(store, thread_id, user_id) ==
    IF thread_id = EmptyThreadId
    THEN NotFoundError(<<"Thread ID cannot be empty">>, store)
    ELSE LET found == {r \in store.threads :
                          r.id = thread_id /\ r.user_id = user_id} IN
         IF found = {} THEN ThreadNotFound(store, thread_id)
         ELSE LET row == CHOOSE r \in found : TRUE IN
              Returned([id |-> row.id, created_at |-> row.created_at], store)

\* The upsert without the WHERE clause on its update branch.
save_thread_Unscoped(store, utcnow, thread_id, created_at, user_id) ==
    LET conflict == {r \in store.threads : r.id = thread_id} IN
    IF conflict = {}
    THEN Returned(<<>>,
            [store EXCEPT !.threads = @ \cup
                {[id |-> thread_id, user_id |-> user_id, title |-> None,
                  created_at |-> created_at, updated_at |-> utcnow]}])
    ELSE Returned(<<>>,
            [store EXCEPT !.threads =
                {IF r.id = thread_id
                 THEN [r EXCEPT !.title = None, !.updated_at = utcnow]
                 ELSE r : r \in store.threads}])

\* INSERT ... ON CONFLICT (id) DO UPDATE SET title, updated_at
\* WHERE chat_threads.user_id = $2
save_thread(store, utcnow, thread_id, created_at, user_id) ==
    LET conflict == {r \in store.threads : r.id = thread_id} IN
    IF conflict = {}
    THEN Returned(<<>>,
            [store EXCEPT !.threads = @ \cup
                {[id |-> thread_id, user_id |-> user_id, title |-> None,
                  created_at |-> created_at, updated_at |-> utcnow]}])
    ELSE Returned(<<>>,
            [store EXCEPT !.threads =
                {IF r.id = thread_id /\ r.user_id = user_id
                 THEN [r EXCEPT !.title = None, !.updated_at = utcnow]
                 ELSE r : r \in store.threads}])

\* The rows before the cursor: updated_at < (SELECT updated_at ... WHERE
\* id = after); no row when the cursor names no thread.
ThreadsAfter(store, user_id, after) ==
    {r \in store.threads :
        /\ r.user_id = user_id
        /\ after # None =>
            \E c \in store.threads : c.id = after /\ r.updated_at < c.updated_at}

load_threads(store, limit, after, order, user_id) ==
    {LET rows == Take(sorted, limit + 1)
         has_more == Len(rows) > limit
         threads_data == Take(rows, limit)
         threads == [i \in 1..Len(threads_data) |->
                        ThreadMetadata(threads_data[i])]
         next_after == IF has_more /\ Len(threads) > 0
                       THEN threads[Len(threads)].id ELSE None
     IN Returned(Page(threads, has_more, next_after), store) :
        sorted \in Sorted(ThreadsAfter(store, user_id, after), UpdatedAt, order)}

\* The thread's user_id, when the caller may touch the thread.
OwnsThread(store, thread_id, user_id) ==
    \E r \in store.threads : r.id = thread_id /\ r.user_id = user_id

MessagesAfter(store, thread_id, after) ==
    {m \in store.messages :
        /\ m.thread_id = thread_id
        /\ after # NoItemId => m.id > int(after)}

\* The items built from the rows, the content of each deserialized: a row
\* whose role is neither 'user' nor 'assistant' gives no item.
Items(rows) ==
    LET Shown(i) == rows[i].role \in {"user", "assistant"}
        idx == {i \in 1..Len(rows) : Shown(i)}
        Nth(k) == CHOOSE i \in idx : Cardinality({j \in idx : j < i}) = k - 1
    IN [k \in 1..Cardinality(idx) |->
            [id |-> str(rows[Nth(k)].id), thread_id |-> rows[Nth(k)].thread_id,
             role |-> rows[Nth(k)].role,
             content |-> loads(rows[Nth(k)].content),
             created_at |-> rows[Nth(k)].created_at]]

load_thread_items(store, thread_id, after, limit, order, user_id) ==
    IF ~OwnsThread(store, thread_id, user_id) THEN {ThreadNotFound(store, thread_id)}
    ELSE {LET rows == Take(sorted, limit + 1)
              has_more == Len(rows) > limit
              messages_data == Take(rows, limit)
              items == Items(messages_data)
              next_after == IF has_more /\ Len(items) > 0
                            THEN items[Len(items)].id ELSE NoItemId
          IN IF \E i \in 1..Len(messages_data) :
                    ~IsJson(messages_data[i].content)
             THEN JSONDecodeError(store)
             ELSE Returned(Page(items, has_more, next_after), store) :
            sorted \in Sorted(MessagesAfter(store, thread_id, after),
                              CreatedAt, order)}

\* isinstance(item, UserMessageItem) / AssistantMessageItem / anything else
ItemTypes == {"UserMessageItem", "AssistantMessageItem", "WidgetItem"}
\* The items the store is given here: a message, and an item that is none.
ItemsAdded == {"UserMessageItem", "WidgetItem"}

Role(item_type) ==
    CASE item_type = "UserMessageItem" -> "user"
      [] item_type = "AssistantMessageItem" -> "assistant"
      [] OTHER -> "system"

add_thread_item(store, thread_id, item_type, content, created_at, user_id) ==
    IF ~OwnsThread(store, thread_id, user_id) THEN ThreadNotFound(store, thread_id)
    ELSE Returned(<<>>,
            Store({IF r.id = thread_id THEN [r EXCEPT !.updated_at = created_at]
                   ELSE r : r \in store.threads},
                  store.messages \cup
                    {[id |-> store.next_message_id, thread_id |-> thread_id,
                      role |-> Role(item_type),
                      content |-> IF Role(item_type) = "system"
                                  THEN ItemText(item_type)
                                  ELSE dumps(content),
                      created_at |-> created_at]},
                  store.next_message_id + 1))

\* The owner of the thread of a message: chat_messages JOIN chat_threads.
MessageOwners(store, id) ==
    {t.user_id : t \in {t \in store.threads :
                          \E m \in store.messages :
                              m.id = id /\ m.thread_id = t.id}}

save_item(store, item_id, content, user_id) ==
    IF MessageOwners(store, int(item_id)) = {}
    THEN Returned(<<>>, store)
    ELSE IF user_id \notin MessageOwners(store, int(item_id))
    THEN MessageNotFound(store, item_id)
    ELSE Returned(<<>>,
            [store EXCEPT !.messages =
                {IF m.id = int(item_id)
                 THEN [m EXCEPT !.content = dumps(content)]
                 ELSE m : m \in store.messages}])

load_item(store, item_id, user_id) ==
    IF user_id \notin MessageOwners(store, int(item_id))
    THEN MessageNotFound(store, item_id)
    ELSE LET row == CHOOSE m \in store.messages : m.id = int(item_id) IN
         IF ~IsJson(row.content) THEN JSONDecodeError(store)
         ELSE Returned(
                [id |-> str(row.id), thread_id |-> row.thread_id,
                 role |-> IF row.role = "user" THEN "user" ELSE "assistant",
                 content |-> loads(row.content),
                 created_at |-> row.created_at],
                store)

\* delete_thread on a table whose foreign key does not cascade.
delete_thread_NoCascade(store, thread_id, user_id) ==
    IF ~OwnsThread(store, thread_id, user_id)
    THEN ThreadNotFound(store, thread_id)
    ELSE Returned(<<>>,
            [store EXCEPT !.threads = {r \in @ : r.id # thread_id}])

\* DELETE FROM chat_threads WHERE id = $1 AND user_id = $2, with the
\* cascade to chat_messages in the same statement.
delete_thread(store, thread_id, user_id) ==
    IF ~OwnsThread(store, thread_id, user_id) THEN ThreadNotFound(store, thread_id)
    ELSE Returned(<<>>,
            Store({r \in store.threads : r.id # thread_id},
                  {m \in store.messages : m.thread_id # thread_id},
                  store.next_message_id))

\* delete_thread_item without the condition on the owner of the thread.
delete_thread_item_Unscoped(store, item_id, user_id) ==
    IF ~(\E m \in store.messages : m.id = int(item_id))
    THEN MessageNotFound(store, item_id)
    ELSE Returned(<<>>,
            [store EXCEPT !.messages = {m \in @ : m.id # int(item_id)}])

delete_thread_item(store, item_id, user_id) ==
    IF user_id \notin MessageOwners(store, int(item_id))
    THEN MessageNotFound(store, item_id)
    ELSE Returned(<<>>,
            [store EXCEPT !.messages = {m \in @ : m.id # int(item_id)}])

(***************************************************************************)
(* The state machine: one step serves one request, or lets time pass.      *)
(***************************************************************************)
\* The request as the endpoint sees it: 0 when the path has no task id, ""
\* when there is no status query parameter.  The JSON body is not kept.
Request(op, token, user_id, task_id, status_filter) ==
    [op |-> op, token |-> token, user_id |-> user_id, task_id |-> task_id,
     status |-> status_filter]

NoResponse ==
    [status |-> 0, shape |-> "none", error |-> "", message |-> "",
     body |-> <<>>]

\* The database the next request meets.
db == Database(tasks, next_id)

(***************************************************************************)
(* Requests in progress.  A handler of the task API is a sequence of       *)
(* statements on its own Session: the SELECT of the lookup, the assignments *)
(* to the loaded object, the flush and COMMIT, the refresh.  Two server     *)
(* processes run two handlers at once, each at its own statement.           *)
(* add_thread_item is three statements on one pooled connection, each       *)
(* committed on its own.                                                    *)
(***************************************************************************)
Processes == {1, 2}
Connections == {1, 2}

\* A server process between two requests.
Idle ==
    [pc |-> "idle", op |-> "", task_id |-> 0, body |-> <<None, None>>,
     task |-> <<>>, loaded |-> <<>>, status |-> 0, returned |-> <<>>]

\* A connection back in the pool.
Closed == [pc |-> "closed", thread_id |-> "", item |-> <<>>]

Init ==
    /\ tasks = {}
    /\ next_id = 1
    /\ now = 0
    /\ req = Request("none", "", "", 0, "")
    /\ resp = NoResponse
    /\ deleted = {}
    /\ chat_threads = {}
    /\ chat_messages = {}
    /\ next_message_id = 1
    /\ _todos = <<>>
    /\ _next_id = 1
    /\ issued = <<>>
    /\ requests = [process \in Processes |-> Idle]
    /\ connections = [connection \in Connections |-> Closed]

\* datetime.utcnow() advances between requests.
Tick ==
    /\ now < MaxTime
    /\ now' = now + 1
    /\ UNCHANGED <<tasks, next_id, req, resp, deleted, chat_vars, cli_vars, step_vars>>

\* The request is answered and its transaction committed.
Serve(request, outcome) ==
    /\ req' = request
    /\ resp' = outcome.resp
    /\ tasks' = outcome.db.tasks
    /\ next_id' = outcome.db.next_id
    /\ deleted' = IF request.op = "delete" /\ outcome.resp.status = 204
                  THEN deleted \cup {request.task_id}
                  ELSE deleted
    /\ UNCHANGED <<now, chat_vars, cli_vars, step_vars>>

\* The requests the clients send.  A request that carries credentials the
\* guard stops is tried with two bodies, a valid and an invalid one.  The
\* id sequence is cut off after MaxTasks ids.
CreateBodies(c) ==
    IF c \in OwnCreds THEN CreateInputs ELSE { <<"a", None>>, <<"", None>> }

UpdateBodies(c) ==
    IF c \in OwnCreds THEN UpdateInputs ELSE { <<T200, None>>, <<"", None>> }

StatusParams(c) ==
    IF c \in OwnCreds THEN StatusInputs ELSE {"all", "bogus"}

CreateTask ==
    \E c \in Creds : \E body \in CreateBodies(c) :
        LET outcome == create_task(db, now, c[1], c[2], body[1], body[2]) IN
        /\ outcome.db.next_id <= MaxTasks + 1
        /\ Serve(Request("create", c[1], c[2], 0, ""), outcome)

ListTasks ==
    \E c \in Creds : \E status_filter \in StatusParams(c) :
        \E outcome \in list_tasks(db, now, c[1], c[2], status_filter) :
            Serve(Request("list", c[1], c[2], 0, status_filter), outcome)

GetTask ==
    \E c \in Creds, task_id \in TaskIds :
        Serve(Request("get", c[1], c[2], task_id, ""),
              get_task(db, now, c[1], c[2], task_id))

UpdateTask ==
    \E c \in Creds, task_id \in TaskIds : \E body \in UpdateBodies(c) :
        Serve(Request("update", c[1], c[2], task_id, ""),
              update_task(db, now, c[1], c[2], task_id, body[1], body[2]))

ToggleCompletion ==
    \E c \in Creds, task_id \in TaskIds :
        Serve(Request("toggle", c[1], c[2], task_id, ""),
              toggle_completion(db, now, c[1], c[2], task_id))

DeleteTask ==
    \E c \in Creds, task_id \in TaskIds :
        Serve(Request("delete", c[1], c[2], task_id, ""),
              delete_task(db, now, c[1], c[2], task_id))

\* process is called with a body that is not empty, and only then.
Processed(body) == IF body = "" THEN {Returns} ELSE ProcessResults

ChatKit ==
    \E token \in Tokens, body \in ChatBodies : \E result \in Processed(body) :
        Serve(Request("chatkit", token, "", 0, ""),
              chatkit_endpoint(db, now, token, body, result))

\* A request during which the database fails.
StorageFailure ==
    \E cred \in Creds, point \in FaultPoints :
        Serve(Request("failure", cred[1], cred[2], 0, point),
              storage_failure(db, now, cred[1], cred[2], point))

ChatSessionFailure ==
    \E token \in Tokens :
        Serve(Request("chatkit_failure", token, "", 0, ""),
              chatkit_session_failure(db))

Next ==
    \/ Tick
    \/ ChatKit
    \/ StorageFailure
    \/ ChatSessionFailure
    \/ CreateTask
    \/ ListTasks
    \/ GetTask
    \/ UpdateTask
    \/ ToggleCompletion
    \/ DeleteTask

Spec == Init /\ [][Next]_vars

(***************************************************************************)
(* The same endpoints under a longer clock and a longer id sequence, for   *)
(* the order of the list: one client, whose session does not expire,       *)
(* creates tasks, modifies them and lists them.                            *)
(***************************************************************************)
OrderMaxTime == 2
OrderMaxTasks == 3
OrderCreds == { <<"tokB", "bob">> }

OrderTick ==
    /\ now < OrderMaxTime
    /\ now' = now + 1
    /\ UNCHANGED <<tasks, next_id, req, resp, deleted, chat_vars, cli_vars, step_vars>>

OrderCreate ==
    \E c \in OrderCreds :
        LET outcome == create_task(db, now, c[1], c[2], "a", None) IN
        /\ outcome.db.next_id <= OrderMaxTasks + 1
        /\ Serve(Request("create", c[1], c[2], 0, ""), outcome)

OrderUpdate ==
    \E c \in OrderCreds, task_id \in 1..OrderMaxTasks :
        Serve(Request("update", c[1], c[2], task_id, ""),
              update_task(db, now, c[1], c[2], task_id, None, "x"))

OrderToggle ==
    \E c \in OrderCreds, task_id \in 1..OrderMaxTasks :
        Serve(Request("toggle", c[1], c[2], task_id, ""),
              toggle_completion(db, now, c[1], c[2], task_id))

OrderList ==
    \E c \in OrderCreds :
        \E outcome \in list_tasks(db, now, c[1], c[2], "all") :
            Serve(Request("list", c[1], c[2], 0, "all"), outcome)

OrderNext ==
    \/ OrderTick
    \/ OrderCreate
    \/ OrderUpdate
    \/ OrderToggle
    \/ OrderList

SpecOrder == Init /\ [][OrderNext]_vars

(***************************************************************************)
(* The chat store under the calls the ChatKit server makes with the        *)
(* context of a verified user.                                             *)
(***************************************************************************)
StoreMaxTime == 1
StoreMaxMessages == 2

ThreadIds == {"th1", "th2"}
MessageIds == 1..StoreMaxMessages
Limits == {1, 2}
Orders == {"asc", "desc"}

chat == Store(chat_threads, chat_messages, next_message_id)

StoreCall(op, user_id, thread_id, item_id) ==
    [op |-> op, user_id |-> user_id, thread_id |-> thread_id,
     item_id |-> item_id]

\* The call is answered; gone is history: the ids of the messages it removed.
StoreServe(call, result) ==
    /\ req' = call
    /\ resp' = [ok |-> result.ok, error |-> result.error,
                gone |-> {m.id : m \in chat_messages \ result.store.messages}]
    /\ chat_threads' = result.store.threads
    /\ chat_messages' = result.store.messages
    /\ next_message_id' = result.store.next_message_id
    /\ UNCHANGED <<tasks, next_id, now, deleted, cli_vars, step_vars>>

StoreTick ==
    /\ now < StoreMaxTime
    /\ now' = now + 1
    /\ UNCHANGED <<tasks, next_id, req, resp, deleted, chat_vars, cli_vars, step_vars>>

LoadThread ==
    \E user_id \in PathUsers, thread_id \in ThreadIds \cup {EmptyThreadId} :
        StoreServe(StoreCall("load_thread", user_id, thread_id, 0),
                   load_thread(chat, thread_id, user_id))

SaveThread ==
    \E user_id \in PathUsers, thread_id \in ThreadIds :
        StoreServe(StoreCall("save_thread", user_id, thread_id, 0),
                   save_thread(chat, now, thread_id, now, user_id))

LoadThreads ==
    \E user_id \in PathUsers, limit \in {1}, order \in Orders,
       after \in {None, "th1"} :
        \E result \in load_threads(chat, limit, after, order, user_id) :
            StoreServe(StoreCall("load_threads", user_id, "", 0), result)

LoadThreadItems ==
    \E user_id \in PathUsers, thread_id \in ThreadIds, limit \in {1},
       order \in Orders, after \in {NoItemId, str(1)} :
        \E result \in load_thread_items(chat, thread_id, after, limit, order,
                                        user_id) :
            StoreServe(StoreCall("load_thread_items", user_id, thread_id, 0),
                       result)

AddThreadItem ==
    \E user_id \in PathUsers, thread_id \in ThreadIds, item_type \in ItemsAdded,
       created_at \in 0..now :
        LET result == add_thread_item(chat, thread_id, item_type, "c",
                                      created_at, user_id) IN
        /\ result.store.next_message_id <= StoreMaxMessages + 1
        /\ StoreServe(StoreCall("add_thread_item", user_id, thread_id, 0),
                      result)

SaveItem ==
    \E user_id \in PathUsers, id \in MessageIds :
        StoreServe(StoreCall("save_item", user_id, "", id),
                   save_item(chat, str(id), "c", user_id))

LoadItem ==
    \E user_id \in PathUsers, id \in MessageIds :
        StoreServe(StoreCall("load_item", user_id, "", id),
                   load_item(chat, str(id), user_id))

DeleteThread ==
    \E user_id \in PathUsers, thread_id \in ThreadIds :
        StoreServe(StoreCall("delete_thread", user_id, thread_id, 0),
                   delete_thread(chat, thread_id, user_id))

DeleteThreadItem ==
    \E user_id \in PathUsers, id \in MessageIds :
        StoreServe(StoreCall("delete_thread_item", user_id, "", id),
                   delete_thread_item(chat, str(id), user_id))

StoreNext ==
    \/ StoreTick
    \/ LoadThread
    \/ SaveThread
    \/ LoadThreads
    \/ LoadThreadItems
    \/ AddThreadItem
    \/ SaveItem
    \/ LoadItem
    \/ DeleteThread
    \/ DeleteThreadItem

SpecStore == Init /\ [][StoreNext]_vars

(***************************************************************************)
(* The console application, src/services/todo_manager.py: TodoManager.     *)
(* The manager is its two attributes; a method is a function from the      *)
(* manager and the arguments to the value returned or the ValueError       *)
(* raised, and the manager the call leaves behind.  A TodoItem is a        *)
(* mutable object held by the dictionary: an assignment to one of its      *)
(* attributes is a change of the dictionary, whatever the method does      *)
(* next.                                                                   *)
(***************************************************************************)
CliMaxTodos == 3

TodoManager(todos, counter) == [_todos |-> todos, _next_id |-> counter]

TodoItem(id, title, description, completed) ==
    [id |-> id, title |-> title, description |-> description,
     completed |-> completed]

Return(value, manager) ==
    [ok |-> TRUE, value |-> value, message |-> "", manager |-> manager]

ValueError(message, manager) ==
    [ok |-> FALSE, value |-> <<>>, message |-> message, manager |-> manager]

\* len(s): the long texts stand for their lengths.
len(s) == IF s \in {T200, T201, D1001} THEN StrLen(s) ELSE Len(s)

RECURSIVE lstrip(_)
lstrip(s) ==
    IF Len(s) > 0 /\ SubSeq(s, 1, 1) = " "
    THEN lstrip(SubSeq(s, 2, Len(s)))
    ELSE s

RECURSIVE rstrip(_)
rstrip(s) ==
    IF Len(s) > 0 /\ SubSeq(s, Len(s), Len(s)) = " "
    THEN rstrip(SubSeq(s, 1, Len(s) - 1))
    ELSE s

strip(s) == rstrip(lstrip(s))

\* An assignment to attributes of the TodoItem stored under todo_id.
Assign(manager, todo_id, todo) ==
    [manager EXCEPT !._todos =
        [k \in DOMAIN manager._todos |->
            IF k = todo_id THEN todo ELSE manager._todos[k]]]

\* add_todo taking the id from the size of the dictionary.
add_todo_Recount(manager, title, description) ==
    IF title = "" \/ strip(title) = "" \/ len(title) > 200
        \/ len(description) > 1000
    THEN ValueError("invalid", manager)
    ELSE LET id == Cardinality(DOMAIN manager._todos) + 1
             todo == TodoItem(id, strip(title), strip(description), FALSE)
         IN  Return(todo,
                    TodoManager(
                        [k \in DOMAIN manager._todos \cup {id}
                            |-> IF k = id THEN todo ELSE manager._todos[k]],
                        id + 1))

add_todo(manager, title, description) ==
    IF title = "" \/ strip(title) = ""
    THEN ValueError("Title cannot be empty.", manager)
    ELSE IF len(title) > 200
    THEN ValueError("Title exceeds maximum length of 200 characters.",
                    manager)
    ELSE IF len(description) > 1000
    THEN ValueError(
            "Description exceeds maximum length of 1000 characters.", manager)
    ELSE LET todo == TodoItem(manager._next_id, strip(title),
                              strip(description), FALSE)
         IN  Return(todo,
                    TodoManager(
                        [k \in DOMAIN manager._todos \cup {manager._next_id}
                            |-> IF k = manager._next_id THEN todo
                                ELSE manager._todos[k]],
                        manager._next_id + 1))

get_all_todos(manager) ==
    Return([i \in 1..Cardinality(DOMAIN manager._todos) |->
                manager._todos[
                    CHOOSE k \in DOMAIN manager._todos :
                        Cardinality({j \in DOMAIN manager._todos : j < k})
                            = i - 1]],
           manager)

get_todo(manager, todo_id) ==
    IF todo_id \notin DOMAIN manager._todos
    THEN ValueError(<<"Todo with ID ", todo_id, " not found.">>, manager)
    ELSE Return(manager._todos[todo_id], manager)

update_todo(manager, todo_id, title, description) ==
    LET todo == get_todo(manager, todo_id) IN
    IF ~todo.ok THEN todo
    ELSE
    LET titled ==
            IF title = None THEN Return(todo.value, manager)
            ELSE IF title = "" \/ strip(title) = ""
            THEN ValueError("Title cannot be empty.", manager)
            ELSE IF len(title) > 200
            THEN ValueError(
                    "Title exceeds maximum length of 200 characters.",
                    manager)
            ELSE LET t == [todo.value EXCEPT !.title = strip(title)] IN
                 Return(t, Assign(manager, todo_id, t))
    IN
    IF ~titled.ok THEN titled
    ELSE IF description = None THEN titled
    ELSE IF len(description) > 1000
    THEN ValueError(
            "Description exceeds maximum length of 1000 characters.",
            titled.manager)
    ELSE LET t == [titled.value EXCEPT !.description = strip(description)]
         IN  Return(t, Assign(titled.manager, todo_id, t))

delete_todo(manager, todo_id) ==
    LET todo == get_todo(manager, todo_id) IN
    IF ~todo.ok THEN todo
    ELSE Return(TRUE,
                [manager EXCEPT !._todos =
                    [k \in DOMAIN manager._todos \ {todo_id} |->
                        manager._todos[k]]])

toggle_complete(manager, todo_id) ==
    LET todo == get_todo(manager, todo_id) IN
    IF ~todo.ok THEN todo
    ELSE LET t == [todo.value EXCEPT !.completed = ~todo.value.completed]
         IN  Return(t, Assign(manager, todo_id, t))

(***************************************************************************)
(* The console application as a state machine: the calls the handlers of   *)
(* ui/handlers.py make on the one TodoManager of the process.              *)
(***************************************************************************)
\* <<title, description>> of add_todo.
AddInputs ==
    { <<"a", "">>, <<" b ", "x">>, <<"", "">>, <<" ", "">>, <<T201, "">>,
      <<"a", D1001>> }

\* <<title, description>> of update_todo: None is an argument left out.
TodoUpdateInputs ==
    { <<"c", None>>, <<None, "x">>, <<"c", D1001>>, <<"", "x">>,
      <<T201, None>> }

TodoIds == 1..CliMaxTodos

manager == TodoManager(_todos, _next_id)

Call(op, todo_id, title, description) ==
    [op |-> op, todo_id |-> todo_id, title |-> title,
     description |-> description]

CliServe(call, result) ==
    /\ req' = call
    /\ resp' = [ok |-> result.ok, value |-> result.value,
                message |-> result.message]
    /\ _todos' = result.manager._todos
    /\ _next_id' = result.manager._next_id
    /\ issued' = IF call.op = "add_todo" /\ result.ok
                 THEN Append(issued, result.value.id)
                 ELSE issued
    /\ UNCHANGED <<tasks, next_id, now, deleted, chat_vars, step_vars>>

AddTodo ==
    \E input \in AddInputs :
        LET result == add_todo(manager, input[1], input[2]) IN
        /\ result.manager._next_id <= CliMaxTodos + 1
        /\ CliServe(Call("add_todo", 0, input[1], input[2]), result)

GetAllTodos ==
    CliServe(Call("get_all_todos", 0, "", ""), get_all_todos(manager))

UpdateTodo ==
    \E todo_id \in TodoIds, input \in TodoUpdateInputs :
        CliServe(Call("update_todo", todo_id, input[1], input[2]),
                 update_todo(manager, todo_id, input[1], input[2]))

DeleteTodo ==
    \E todo_id \in TodoIds :
        CliServe(Call("delete_todo", todo_id, "", ""),
                 delete_todo(manager, todo_id))

ToggleComplete ==
    \E todo_id \in TodoIds :
        CliServe(Call("toggle_complete", todo_id, "", ""),
                 toggle_complete(manager, todo_id))

CliNext ==
    \/ AddTodo
    \/ GetAllTodos
    \/ UpdateTodo
    \/ DeleteTodo
    \/ ToggleComplete

SpecCli == Init /\ [][CliNext]_vars

(***************************************************************************)
(* The task API statement by statement.  update_task, toggle_completion    *)
(* and delete_task are each: the SELECT of the owner-scoped lookup, the    *)
(* assignments to the loaded object, session.commit() (the UPDATE or       *)
(* DELETE of the flush and the COMMIT), session.refresh(task).  Nothing    *)
(* holds the row between the SELECT and the commit: the Session of         *)
(* get_session is a plain Session(engine), the lookup has no FOR UPDATE    *)
(* and the table has no version column.  Two server processes serve one    *)
(* client, bob, whose session does not expire.                             *)
(***************************************************************************)
RaceMaxTime == 2
RaceMaxTasks == 1
RaceToken == "tokB"
RaceUser == "bob"
RaceBodies == { <<T200, None>>, <<None, "x">> }
Mutations == {"update", "toggle"}

\* The handler after its lookup found the row: the object loaded from it.
Loaded(op, task_id, body, task) ==
    [pc |-> "selected", op |-> op, task_id |-> task_id, body |-> body,
     task |-> task, loaded |-> task, status |-> 0, returned |-> <<>>]

\* The handler about to return or raise: the status of its response.
Done(request, status_code) ==
    [request EXCEPT !.pc = "done", !.status = status_code]

\* The columns of the loaded object whose value is not the one it was
\* loaded with: the SET clause of the UPDATE the flush emits.
Dirty(request) ==
    {column \in DOMAIN request.task :
        request.loaded[column] # request.task[column]}

\* A flush that compares the row with the one the object was loaded from,
\* as a version column would make it.
flush_Versioned(table, request) ==
    LET dirty == Dirty(request)
        rows == {t \in table : t = request.task} IN
    IF dirty = {} THEN [ok |-> TRUE, tasks |-> table]
    ELSE IF rows = {} THEN [ok |-> FALSE, tasks |-> table]
    ELSE [ok |-> TRUE,
          tasks |-> (table \ {request.task}) \cup {request.loaded}]

\* session.add(task); session.commit() of a modified object:
\* UPDATE tasks SET <dirty columns> WHERE id = <primary key>.  The UPDATE
\* that matches no row raises StaleDataError.
flush(table, request) ==
    LET dirty == Dirty(request)
        rows == {t \in table : t.id = request.task.id} IN
    IF dirty = {} THEN [ok |-> TRUE, tasks |-> table]
    ELSE IF rows = {} THEN [ok |-> FALSE, tasks |-> table]
    ELSE [ok |-> TRUE,
          tasks |-> {IF t \in rows
                     THEN [column \in DOMAIN t |->
                              IF column \in dirty THEN request.loaded[column]
                              ELSE t[column]]
                     ELSE t : t \in table}]

\* session.delete(task); session.commit(): DELETE FROM tasks WHERE id = <pk>.
\* A DELETE that matches no row is a warning, not an exception.
flush_delete(table, request) ==
    {t \in table : t.id # request.task.id}

RaceTick ==
    /\ now < RaceMaxTime
    /\ now' = now + 1
    /\ UNCHANGED <<tasks, next_id, req, resp, deleted, chat_vars, cli_vars,
                   step_vars>>

RaceCreate ==
    LET outcome == create_task(db, now, RaceToken, RaceUser, "a", None) IN
    /\ outcome.db.next_id <= RaceMaxTasks + 1
    /\ Serve(Request("create", RaceToken, RaceUser, 0, ""), outcome)

\* The handler up to the result of its lookup.
Select(process, op, task_id, body) ==
    LET auth == verify_user_ownership(now, RaceUser, RaceToken)
        idle == [Idle EXCEPT !.op = op, !.task_id = task_id] IN
    /\ requests[process].pc = "idle"
    /\ requests' = [requests EXCEPT ![process] =
           IF ~auth.ok THEN Done(idle, auth.status)
           ELSE IF Lookup(db, task_id, auth.val) = {} THEN Done(idle, 404)
           ELSE Loaded(op, task_id, body, TheTask(db, task_id, auth.val))]
    /\ UNCHANGED <<tasks, next_id, now, req, resp, deleted, connections,
                   chat_vars, cli_vars>>

\* The assignments of update_task or toggle_completion to the loaded object.
Modify(process) ==
    LET request == requests[process] IN
    /\ request.pc = "selected"
    /\ request.op \in Mutations
    /\ requests' = [requests EXCEPT ![process] =
           [request EXCEPT
               !.pc = "modified",
               !.loaded =
                   IF request.op = "update"
                   THEN UpdatedTask(request.task, now, request.body[1],
                                    request.body[2])
                   ELSE ToggledTask(request.task, now)]]
    /\ UNCHANGED <<tasks, next_id, now, req, resp, deleted, connections,
                   chat_vars, cli_vars>>

\* session.commit() of update_task or toggle_completion.
Commit(process) ==
    LET request == requests[process]
        flushed == flush(tasks, request) IN
    /\ request.pc = "modified"
    /\ tasks' = flushed.tasks
    /\ requests' = [requests EXCEPT ![process] =
           IF flushed.ok THEN [request EXCEPT !.pc = "committed"]
           ELSE Done(request, general_exception_handler.status)]
    /\ UNCHANGED <<next_id, now, req, resp, deleted, connections, chat_vars,
                   cli_vars>>

\* session.commit() of delete_task, which then returns None.
CommitDelete(process) ==
    LET request == requests[process] IN
    /\ request.pc = "selected"
    /\ request.op = "delete"
    /\ tasks' = flush_delete(tasks, request)
    /\ deleted' = deleted \cup {request.task.id}
    /\ requests' = [requests EXCEPT ![process] =
           Done(request, NoContent.status)]
    /\ UNCHANGED <<next_id, now, req, resp, connections, chat_vars, cli_vars>>

\* session.refresh(task): SELECT ... WHERE id = <pk>; no row raises
\* InvalidRequestError.  The row read is the body of the response; loaded
\* keeps what the handler wrote.
Refresh(process) ==
    LET request == requests[process]
        rows == {t \in tasks : t.id = request.task.id} IN
    /\ request.pc = "committed"
    /\ requests' = [requests EXCEPT ![process] =
           IF rows = {}
           THEN Done(request, general_exception_handler.status)
           ELSE Done([request EXCEPT !.returned = CHOOSE t \in rows : TRUE],
                     200)]
    /\ UNCHANGED <<tasks, next_id, now, req, resp, deleted, connections,
                   chat_vars, cli_vars>>

\* The response is sent; the process takes its next request.
Respond(process) ==
    /\ requests[process].pc = "done"
    /\ requests' = [requests EXCEPT ![process] = Idle]
    /\ UNCHANGED <<tasks, next_id, now, req, resp, deleted, connections,
                   chat_vars, cli_vars>>

RaceNext ==
    \/ RaceTick
    \/ RaceCreate
    \/ \E process \in Processes, task_id \in 1..RaceMaxTasks :
           \/ \E body \in RaceBodies : Select(process, "update", task_id, body)
           \/ Select(process, "toggle", task_id, <<None, None>>)
           \/ Select(process, "delete", task_id, <<None, None>>)
    \/ \E process \in Processes :
           \/ Modify(process)
           \/ Commit(process)
           \/ CommitDelete(process)
           \/ Refresh(process)
           \/ Respond(process)

SpecRace == Init /\ [][RaceNext]_vars

TypeOK ==
    /\ next_id \in 1..(MaxTasks + 1)
    /\ now \in Times
    /\ \A t \in tasks : t.id \in 1..MaxTasks /\ t.user_id \in PathUsers

(***************************************************************************)
(* Vocabulary of the properties.  A property speaks of the outcome the     *)
(* endpoints give, in the state reached, to every request a client may     *)
(* send next; the witnesses speak of the request served last.              *)
(***************************************************************************)
ItemOps == {"get", "update", "toggle", "delete"}
NoBody == <<None, None>>

\* The calls of the four endpoints that address one task: <<endpoint, body>>.
ItemCalls ==
    { <<"get", NoBody>>, <<"toggle", NoBody>>, <<"delete", NoBody>> }
        \cup { <<"update", body>> : body \in UpdateInputs }

CallValid(call) ==
    call[1] = "update" => TaskUpdateValid(call[2][1], call[2][2])

ItemCall(session, utcnow, token, user_id, task_id, call) ==
    CASE call[1] = "get" -> get_task(session, utcnow, token, user_id, task_id)
      [] call[1] = "toggle" ->
            toggle_completion(session, utcnow, token, user_id, task_id)
      [] call[1] = "delete" ->
            delete_task(session, utcnow, token, user_id, task_id)
      [] call[1] = "update" ->
            update_task(session, utcnow, token, user_id, task_id,
                        call[2][1], call[2][2])

\* The caller's session is valid now and its user is the user of the path.
Verified(token, user_id) == verify_user_ownership(now, user_id, token).ok

OwnedBy(task_id, user_id) ==
    \E t \in tasks : t.id = task_id /\ t.user_id = user_id
OwnedByOther(task_id, user_id) ==
    \E t \in tasks : t.id = task_id /\ t.user_id # user_id
NeverCreated(task_id) == task_id >= next_id

NotFoundResponse == http_exception_handler(NotFound)

(***************************************************************************)
(* C1: for owners A # B and a task of A, a get, update, toggle or delete   *)
(* under B's verified identity on B's own path answers 404 NotFound, never *)
(* 403 and never 401, and leaves the table alone, after any sequence of    *)
(* operations.  (An update whose body fails validation answers 422 before  *)
(* the lookup; that is not 401 or 403 either.)                             *)
(***************************************************************************)
C1_CrossOwnerNotFound ==
    \A token \in Tokens, B \in PathUsers, task_id \in TaskIds :
        (Verified(token, B) /\ OwnedByOther(task_id, B)) =>
            \A call \in ItemCalls :
                LET out == ItemCall(db, now, token, B, task_id, call) IN
                /\ out.resp.status \notin {401, 403}
                /\ CallValid(call) =>
                      out.resp.status = 404 /\ out.resp.error = "not_found"
                /\ out.db = db

C1_Witness ==
    /\ req.op \in ItemOps
    /\ req.token = "tokB" /\ req.user_id = "bob"
    /\ \E t \in tasks : t.id = req.task_id /\ t.user_id = "alice"
    /\ resp.status = 404

(***************************************************************************)
(* C2: enumeration resistance.  For get, update, toggle and delete by a    *)
(* verified owner, an id that was never created and an id that belongs to  *)
(* another owner get one and the same response (status 404, error          *)
(* not_found, message "Task not found"); and the response to any of these  *)
(* calls is the one the caller would get were the other owners' rows not   *)
(* in the table at all.                                                    *)
(***************************************************************************)
OwnRows(user_id) == {t \in tasks : t.user_id = user_id}

C2_EnumerationResistance ==
    \A token \in Tokens, B \in PathUsers :
        Verified(token, B) =>
            \A call \in ItemCalls :
                /\ \A k1, k2 \in TaskIds :
                     (CallValid(call) /\ NeverCreated(k1) /\ OwnedByOther(k2, B)) =>
                        LET r1 == ItemCall(db, now, token, B, k1, call).resp
                            r2 == ItemCall(db, now, token, B, k2, call).resp
                        IN /\ r1 = r2
                           /\ r2.status = 404
                           /\ r2.error = "not_found"
                           /\ r2.message = "Task not found"
                /\ \A k \in TaskIds :
                     ItemCall(db, now, token, B, k, call).resp
                        = ItemCall(Database(OwnRows(B), next_id), now,
                                   token, B, k, call).resp

\* A never-created id was asked for while another owner's task existed.
C2_Witness ==
    /\ req.op \in ItemOps
    /\ req.token = "tokB" /\ req.user_id = "bob"
    /\ NeverCreated(req.task_id)
    /\ \E t \in tasks : t.user_id = "alice"
    /\ resp = NotFoundResponse

(***************************************************************************)
(* C3: after any sequence of requests, list(owner, filter) returns exactly *)
(* the stored tasks of that owner, restricted to completed = false for     *)
(* pending and completed = true for completed, each once; never another    *)
(* owner's task; and an empty list with status 200 when nothing matches.   *)
(***************************************************************************)
Matching(owner, status_filter) ==
    {t \in tasks :
        /\ t.user_id = owner
        /\ status_filter = "all" \/ t.completed = (status_filter = "completed")}

Range(rows) == {rows[i] : i \in 1..Len(rows)}

C3_ListExact ==
    \A token \in Tokens, owner \in PathUsers,
       status_filter \in {"all", "pending", "completed"} :
        Verified(token, owner) =>
            LET outs == list_tasks(db, now, token, owner, status_filter) IN
            /\ outs # {}
            /\ \A out \in outs :
                /\ out.resp.status = 200
                /\ Range(out.resp.body) = Matching(owner, status_filter)
                /\ Len(out.resp.body) = Cardinality(Matching(owner, status_filter))
                /\ \A t \in Range(out.resp.body) : t.user_id = owner
                /\ Matching(owner, status_filter) = {} => out.resp.body = <<>>
                /\ out.db = db

\* bob listed his completed tasks and got one, while alice has a completed
\* task too.
C3_Witness ==
    /\ req.op = "list" /\ req.user_id = "bob" /\ req.status = "completed"
    /\ resp.status = 200
    /\ Len(resp.body) = 1
    /\ resp.body[1].user_id = "bob" /\ resp.body[1].completed
    /\ \E t \in tasks : t.user_id = "alice" /\ t.completed

(***************************************************************************)
(* C4: verify_ownership(path_owner_id, verified_owner_id) fails with 401   *)
(* when the verified identity is absent or empty, fails with 403 when it   *)
(* is present and differs from the path owner, and otherwise returns the   *)
(* path owner; it returns an owner id only when that id is the verified    *)
(* identity.  The guard of a request is this function applied to the       *)
(* userId of the request's session.                                        *)
(***************************************************************************)
SessionUserIds == {r.userId : r \in SessionTable} \cup {None, "", "alice", "bob"}

C4_VerifyOwnership ==
    /\ \A path_owner_id \in PathUsers, verified_owner_id \in SessionUserIds :
        LET r == verify_ownership(path_owner_id, verified_owner_id) IN
        /\ verified_owner_id \in {None, ""} => ~r.ok /\ r.status = 401
        /\ (verified_owner_id \notin {None, ""}
                /\ verified_owner_id # path_owner_id) => ~r.ok /\ r.status = 403
        /\ (verified_owner_id \notin {None, ""}
                /\ verified_owner_id = path_owner_id) =>
              r.ok /\ r.val = path_owner_id
        /\ r.ok => r.val = verified_owner_id
    /\ \A token \in Tokens, user_id \in PathUsers :
        LET session_data == verify_session_token(now, token)
            guard == verify_user_ownership(now, user_id, token)
        IN /\ session_data.ok =>
                guard = verify_ownership(user_id, session_data.val.userId)
           /\ guard.ok => session_data.ok /\ guard.val = session_data.val.userId

\* A request whose session row has no userId was answered 401.
C4_Witness ==
    /\ req.token = "tokN"
    /\ verify_session_token(now, req.token).ok
    /\ resp.status = 401
    /\ resp.message = "Missing userId in session"

(***************************************************************************)
(* C5: when the path owner differs from the verified caller identity, each *)
(* of the six endpoints answers 403 Forbidden and touches nothing, whether *)
(* or not the addressed task id exists and whoever owns it: the guard runs *)
(* before any lookup, so 403 takes precedence over 404.                    *)
(***************************************************************************)
Mismatch(token, user_id) ==
    LET session_data == verify_session_token(now, token) IN
    /\ session_data.ok
    /\ session_data.val.userId \notin {None, ""}
    /\ session_data.val.userId # user_id

ForbiddenOutcome(out) ==
    /\ out.resp.status = 403
    /\ out.resp.error = "forbidden"
    /\ out.db = db

C5_ForbiddenBeforeLookup ==
    \A token \in Tokens, user_id \in PathUsers :
        Mismatch(token, user_id) =>
            /\ \A body \in CreateInputs :
                 ForbiddenOutcome(
                    create_task(db, now, token, user_id, body[1], body[2]))
            /\ \A status_filter \in StatusInputs :
                 \A out \in list_tasks(db, now, token, user_id, status_filter) :
                    ForbiddenOutcome(out)
            /\ \A task_id \in TaskIds, call \in ItemCalls :
                 ForbiddenOutcome(ItemCall(db, now, token, user_id, task_id, call))

\* bob's token on alice's path, deleting a task that exists: 403, task kept.
C5_Witness ==
    /\ req.op = "delete"
    /\ req.token = "tokB" /\ req.user_id = "alice"
    /\ \E t \in tasks : t.id = req.task_id
    /\ resp.status = 403

(***************************************************************************)
(* C6: in both backends the session verifier yields an owner identity only *)
(* for a bearer token that has a row in the session table whose expiry     *)
(* has not passed, and the identity is the userId of that row; it rejects  *)
(* with 401 when no row matches the token and when the row's expiry is in  *)
(* the past.  A row without an expiry never expires.                       *)
(***************************************************************************)
SessionRows(token) == {r \in SessionTable : r.token = token}

ExpiryPassed(r) == r.expiresAt # NoExpiry /\ r.expiresAt < now

C6_SessionVerifier ==
    \A token \in Tokens :
        LET session_data == verify_session_token(now, token)
            user_id == verify_token(now, Bearer(token))
        IN
        /\ session_data.ok =>
              \E r \in SessionRows(token) :
                  ~ExpiryPassed(r) /\ session_data.val.userId = r.userId
        /\ user_id.ok =>
              \E r \in SessionRows(token) :
                  ~ExpiryPassed(r) /\ user_id.val = r.userId
        /\ (SessionRows(token) = {}
                \/ \E r \in SessionRows(token) : ExpiryPassed(r)) =>
              /\ ~session_data.ok /\ session_data.status = 401
              /\ ~user_id.ok /\ user_id.status = 401
              /\ \A p \in PathUsers, task_id \in TaskIds, call \in ItemCalls :
                    ItemCall(db, now, token, p, task_id, call).resp.status = 401
              /\ \A body \in ChatBodies, result \in ProcessResults :
                    chatkit_endpoint(db, now, token, body, result).resp.status
                        = 401

\* alice's session has run out and the chat endpoint turned her token away.
C6_Witness ==
    /\ req.op = "chatkit"
    /\ req.token = "tokA"
    /\ \E r \in SessionRows(req.token) : ExpiryPassed(r)
    /\ resp.status = 401
    /\ resp.message = "Session expired"

(***************************************************************************)
(* C7: create(owner, title, description) by the verified owner with a      *)
(* valid body stores exactly one new row and returns it with 201: its      *)
(* user_id is the verified owner, completed is false, created_at equals    *)
(* updated_at, and its id is newly assigned and differs from the id of     *)
(* every task already in the table.                                        *)
(***************************************************************************)
C7_CreateStoresNewRow ==
    \A token \in Tokens, owner \in PathUsers, body \in CreateInputs :
        (Verified(token, owner) /\ TaskCreateValid(body[1], body[2])) =>
            LET out == create_task(db, now, token, owner, body[1], body[2])
                row == out.resp.body[1]
            IN
            /\ out.resp.status = 201
            /\ Len(out.resp.body) = 1
            /\ row.user_id = owner
            /\ row.user_id = verify_session_token(now, token).val.userId
            /\ row.completed = FALSE
            /\ row.created_at = row.updated_at
            /\ row.created_at = now
            /\ row.title = body[1] /\ row.description = body[2]
            /\ \A t \in tasks : t.id # row.id
            /\ out.db.tasks = tasks \cup {row}
            /\ {t \in out.db.tasks : t.id = row.id} = {row}

\* A task was created after another had been deleted: the table holds one
\* row, and the new row did not get the id of the row that is gone.
C7_Witness ==
    /\ req.op = "create"
    /\ resp.status = 201
    /\ resp.body[1] \in tasks
    /\ Cardinality(tasks) = 1
    /\ resp.body[1].id = 2

(***************************************************************************)
(* C8: toggling a task twice in succession returns completed to its        *)
(* original value; each toggle sets updated_at to the time of that call;   *)
(* and updated_at is never earlier than created_at.                        *)
(***************************************************************************)
C8_ToggleTwice ==
    /\ \A t \in tasks : t.updated_at >= t.created_at
    /\ \A token \in Tokens, owner \in PathUsers, t \in tasks :
        (Verified(token, owner) /\ t.user_id = owner) =>
            LET first == toggle_completion(db, now, token, owner, t.id)
                once == first.resp.body[1]
            IN
            /\ first.resp.status = 200
            /\ once.completed = ~t.completed
            /\ once.updated_at = now
            /\ once.updated_at >= once.created_at
            /\ once = [t EXCEPT !.completed = ~t.completed, !.updated_at = now]
            /\ first.db.tasks = (tasks \ {t}) \cup {once}
            /\ \A later \in now..MaxTime :
                LET second == toggle_completion(first.db, later, token, owner,
                                                t.id)
                    twice == second.resp.body[1]
                IN second.resp.status = 200 =>
                    /\ twice.completed = t.completed
                    /\ twice.updated_at = later
                    /\ twice.updated_at >= twice.created_at
                    /\ second.db.tasks = (tasks \ {t}) \cup {twice}

\* A toggle gave back a pending task: it had been toggled to completed
\* before, and this call came later than its creation.
C8_Witness ==
    /\ req.op = "toggle"
    /\ resp.status = 200
    /\ resp.body[1].completed = FALSE
    /\ resp.body[1].updated_at = now
    /\ resp.body[1].updated_at > resp.body[1].created_at

(***************************************************************************)
(* C9: update is partial.  A field of the body that is None leaves the     *)
(* stored field as it was and a field that is supplied replaces it (title  *)
(* None with a description sets the description only, and the other way    *)
(* round); id, user_id, completed and created_at never change, and         *)
(* updated_at is set to the time of the call.                              *)
(***************************************************************************)
C9_PartialUpdate ==
    \A token \in Tokens, owner \in PathUsers, t \in tasks :
        (Verified(token, owner) /\ t.user_id = owner) =>
            \A body \in UpdateInputs :
                TaskUpdateValid(body[1], body[2]) =>
                    LET out == update_task(db, now, token, owner, t.id,
                                           body[1], body[2])
                        row == out.resp.body[1]
                    IN
                    /\ out.resp.status = 200
                    /\ row.title = (IF body[1] = None THEN t.title ELSE body[1])
                    /\ row.description =
                          (IF body[2] = None THEN t.description ELSE body[2])
                    /\ row.id = t.id
                    /\ row.user_id = t.user_id
                    /\ row.completed = t.completed
                    /\ row.created_at = t.created_at
                    /\ row.updated_at = now
                    /\ out.db.tasks = (tasks \ {t}) \cup {row}

\* An update gave a task a description and left the title it was created
\* with: "a" is the title of tasks created without a description, and no
\* update writes it.
C9_Witness ==
    /\ req.op = "update"
    /\ resp.status = 200
    /\ resp.body[1].title = "a"
    /\ resp.body[1].description = "x"
    /\ resp.body[1].updated_at > resp.body[1].created_at

(***************************************************************************)
(* C10: a list comes ordered by created_at, newest first: tasks created at *)
(* t1 < t2 < t3 are listed in the order [t3, t2, t1]; and an update or a   *)
(* toggle of a task, now or later, changes no task's position in the list  *)
(* of all the owner's tasks.  Tasks created at the same time come in the   *)
(* order the database gives them.                                          *)
(***************************************************************************)
Ids(rows) == [i \in 1..Len(rows) |-> rows[i].id]

ListedIds(session, utcnow, token, owner) ==
    {Ids(out.resp.body) : out \in list_tasks(session, utcnow, token, owner, "all")}

Modifications ==
    {call \in ItemCalls : call[1] \in {"update", "toggle"} /\ CallValid(call)}

C10_NewestFirst ==
    \A token \in Tokens, owner \in PathUsers :
        Verified(token, owner) =>
            /\ \A status_filter \in {"all", "pending", "completed"} :
                \A out \in list_tasks(db, now, token, owner, status_filter) :
                    \A i, j \in 1..Len(out.resp.body) :
                        i < j => out.resp.body[i].created_at
                                    >= out.resp.body[j].created_at
            /\ \A t \in tasks, call \in Modifications,
                  later \in now..OrderMaxTime :
                LET modified == ItemCall(db, now, token, owner, t.id, call) IN
                (t.user_id = owner
                    /\ verify_user_ownership(later, owner, token).ok) =>
                        ListedIds(modified.db, later, token, owner)
                            = ListedIds(db, later, token, owner)

\* Three tasks created at three times are listed newest first, although
\* the oldest was modified after the second.
C10_Witness ==
    /\ req.op = "list"
    /\ resp.status = 200
    /\ Len(resp.body) = 3
    /\ resp.body[1].created_at > resp.body[2].created_at
    /\ resp.body[2].created_at > resp.body[3].created_at
    /\ resp.body[3].updated_at > resp.body[2].updated_at

(***************************************************************************)
(* C11: after a successful delete the task is gone for good: every later   *)
(* get, update, toggle or delete of that id by a verified owner answers    *)
(* 404, no list contains it, and no later operation (no create in          *)
(* particular) makes the id refer to a task again.                         *)
(***************************************************************************)
C11_DeletedForGood ==
    \A task_id \in deleted :
        /\ \A t \in tasks : t.id # task_id
        /\ \A token \in Tokens, owner \in PathUsers :
            Verified(token, owner) =>
                /\ \A call \in ItemCalls :
                     LET out == ItemCall(db, now, token, owner, task_id, call) IN
                     /\ CallValid(call) => out.resp.status = 404
                     /\ \A t \in out.db.tasks : t.id # task_id
                /\ \A status_filter \in StatusInputs :
                     \A out \in list_tasks(db, now, token, owner, status_filter) :
                        \A i \in 1..Len(out.resp.body) :
                            out.resp.body[i].id # task_id
                /\ \A body \in CreateInputs :
                     \A t \in create_task(db, now, token, owner,
                                          body[1], body[2]).db.tasks :
                        t.id # task_id

\* The id of a deleted task was asked for after a later task had been
\* created, and the answer was 404.
C11_Witness ==
    /\ req.op \in ItemOps
    /\ req.task_id \in deleted
    /\ Verified(req.token, req.user_id)
    /\ resp.status = 404
    /\ \E t \in tasks : t.id > req.task_id /\ t.user_id = req.user_id

(***************************************************************************)
(* C12: a create or update whose title is empty or longer than 200         *)
(* characters, or whose description is longer than 1000 characters, is     *)
(* rejected before the tasks table is touched (with the validation         *)
(* failure 422 when the caller passes the guard), so every stored task has *)
(* a title of 1 to 200 characters and a description of at most 1000.       *)
(***************************************************************************)
BadTitle(title) == title # None /\ (StrLen(title) = 0 \/ StrLen(title) > 200)
BadDescription(description) ==
    description # None /\ StrLen(description) > 1000

ValidationFailed(out) ==
    /\ out.resp.status = 422
    /\ out.db = db

C12_FieldConstraints ==
    /\ \A t \in tasks :
        /\ t.title # None
        /\ StrLen(t.title) >= 1 /\ StrLen(t.title) <= 200
        /\ t.description # None => StrLen(t.description) <= 1000
    /\ \A token \in Tokens, owner \in PathUsers :
        /\ \A body \in CreateInputs :
            (BadTitle(body[1]) \/ BadDescription(body[2])) =>
                LET out == create_task(db, now, token, owner, body[1], body[2])
                IN /\ out.db = db
                   /\ out.resp.status \in {401, 403, 422}
                   /\ Verified(token, owner) => ValidationFailed(out)
        /\ \A body \in UpdateInputs, task_id \in TaskIds :
            (BadTitle(body[1]) \/ BadDescription(body[2])) =>
                LET out == update_task(db, now, token, owner, task_id,
                                       body[1], body[2])
                IN /\ out.db = db
                   /\ out.resp.status \in {401, 403, 422}
                   /\ Verified(token, owner) => ValidationFailed(out)

\* An update of a task of the caller's own was turned down as invalid.
C12_Witness ==
    /\ req.op = "update"
    /\ Verified(req.token, req.user_id)
    /\ \E t \in tasks : t.id = req.task_id /\ t.user_id = req.user_id
    /\ resp.status = 422
    /\ resp.shape = "detail"

(***************************************************************************)
(* C13: every task has exactly one owner, fixed at creation: no request,   *)
(* whoever sends it, changes the user_id of a task, and a request reads or *)
(* changes a task only when the identity verified for it is the task's     *)
(* user_id.                                                                *)
(***************************************************************************)
\* The outcomes of all the requests a client can send with these credentials.
Outcomes(token, user_id) ==
    {create_task(db, now, token, user_id, body[1], body[2]) :
        body \in CreateInputs}
    \cup UNION {list_tasks(db, now, token, user_id, status_filter) :
                    status_filter \in StatusInputs}
    \cup {ItemCall(db, now, token, user_id, task_id, call) :
            task_id \in TaskIds, call \in ItemCalls}

SessionUser(token) ==
    LET session_data == verify_session_token(now, token) IN
    IF session_data.ok THEN session_data.val.userId ELSE None

C13_OneOwner ==
    /\ \A t1, t2 \in tasks : t1.id = t2.id => t1 = t2
    /\ \A t \in tasks : t.user_id \in PathUsers
    /\ \A token \in Tokens, user_id \in PathUsers :
        \A out \in Outcomes(token, user_id) :
            /\ \A t \in tasks, t2 \in out.db.tasks :
                t2.id = t.id => t2.user_id = t.user_id
            /\ \A t \in tasks :
                t \notin out.db.tasks =>
                    SessionUser(token) = t.user_id /\ user_id = t.user_id
            /\ \A i \in 1..Len(out.resp.body) :
                /\ SessionUser(token) = out.resp.body[i].user_id
                /\ user_id = out.resp.body[i].user_id

\* bob toggled a task of his own while alice had tasks too.
C13_Witness ==
    /\ req.op = "toggle"
    /\ req.token = "tokB" /\ req.user_id = "bob"
    /\ resp.status = 200
    /\ resp.body[1].user_id = "bob"
    /\ \E t \in tasks : t.user_id = "alice"

(***************************************************************************)
(* C14: in the chat store, for owners A # B and a thread of A (or a        *)
(* message in it), each of load_thread, load_thread_items, add_thread_item,*)
(* delete_thread, delete_thread_item and load_item called with B's context *)
(* raises NotFoundError, the same one it raises when the id does not       *)
(* exist, returns nothing of A's and leaves the store as it is.            *)
(***************************************************************************)
\* The store with nothing in it but the threads and messages of user_id.
OwnStore(user_id) ==
    Store({r \in chat_threads : r.user_id = user_id},
          {m \in chat_messages :
              \E r \in chat_threads : r.id = m.thread_id /\ r.user_id = user_id},
          next_message_id)

Refused(result) == ~result.ok /\ result.data = <<>> /\ result.store = chat

\* What the caller sees of a result.
Seen(result) == [ok |-> result.ok, error |-> result.error, data |-> result.data]

Cursors == {str(n) : n \in MessageIds} \cup {NoItemId}

C14_ChatCrossOwnerNotFound ==
    \A r \in chat_threads, B \in PathUsers :
        r.user_id # B =>
            /\ LET got == load_thread(chat, r.id, B) IN
               /\ Refused(got)
               /\ Seen(got) = Seen(load_thread(OwnStore(B), r.id, B))
            /\ \A after \in Cursors, limit \in Limits, order \in Orders :
                /\ \A got \in load_thread_items(chat, r.id, after, limit,
                                                order, B) : Refused(got)
                /\ {Seen(got) : got \in load_thread_items(chat, r.id, after,
                                                          limit, order, B)}
                    = {Seen(got) : got \in load_thread_items(OwnStore(B), r.id,
                                                after, limit, order, B)}
            /\ \A item_type \in ItemTypes, created_at \in 0..now :
                LET got == add_thread_item(chat, r.id, item_type, "c",
                                           created_at, B) IN
                /\ Refused(got)
                /\ Seen(got) = Seen(add_thread_item(OwnStore(B), r.id,
                                        item_type, "c", created_at, B))
            /\ LET got == delete_thread(chat, r.id, B) IN
               /\ Refused(got)
               /\ Seen(got) = Seen(delete_thread(OwnStore(B), r.id, B))
            /\ \A m \in chat_messages :
                m.thread_id = r.id =>
                    /\ LET got == delete_thread_item(chat, str(m.id), B) IN
                       /\ Refused(got)
                       /\ Seen(got) = Seen(delete_thread_item(OwnStore(B),
                                                str(m.id), B))
                    /\ LET got == load_item(chat, str(m.id), B) IN
                       /\ Refused(got)
                       /\ Seen(got) = Seen(load_item(OwnStore(B), str(m.id), B))

\* bob asked for the deletion of a message in a thread of alice and was told
\* there is no such message.
C14_Witness ==
    /\ req.op = "delete_thread_item"
    /\ req.user_id = "bob"
    /\ ~resp.ok
    /\ resp.error = <<"Message", str(req.item_id), "not found">>
    /\ \E m \in chat_messages, r \in chat_threads :
        m.id = req.item_id /\ m.thread_id = r.id /\ r.user_id = "alice"

(***************************************************************************)
(* C15: save_thread never lets a caller take over another owner's thread:  *)
(* save_thread(thread, B) with the id of a thread of A # B leaves the      *)
(* stored thread with owner A and with its title and updated_at as they    *)
(* were; and no call of the store changes the user_id of a thread that     *)
(* exists.                                                                 *)
(***************************************************************************)
\* The results of all the calls that write to chat_threads.
ThreadWrites(user_id) ==
    {save_thread(chat, now, thread_id, created_at, user_id) :
        thread_id \in ThreadIds, created_at \in 0..now}
    \cup {add_thread_item(chat, thread_id, item_type, "c", created_at, user_id) :
            thread_id \in ThreadIds, item_type \in ItemTypes,
            created_at \in 0..now}

C15_NoThreadTakeover ==
    /\ \A r \in chat_threads, B \in PathUsers :
        r.user_id # B =>
            \A utcnow \in now..StoreMaxTime : \A created_at \in 0..utcnow :
                LET got == save_thread(chat, utcnow, r.id, created_at, B) IN
                /\ r \in got.store.threads
                /\ got.store = chat
    /\ \A user_id \in PathUsers :
        \A got \in ThreadWrites(user_id) :
            \A r \in chat_threads, r2 \in got.store.threads :
                r2.id = r.id => r2.user_id = r.user_id
    /\ \A r1, r2 \in chat_threads : r1.id = r2.id => r1 = r2

\* bob saved a thread under the id of a thread of alice, later than alice
\* saved hers: the thread is alice's and its updated_at is the old one.
C15_Witness ==
    /\ req.op = "save_thread"
    /\ req.user_id = "bob"
    /\ resp.ok
    /\ \E r \in chat_threads :
        /\ r.id = req.thread_id
        /\ r.user_id = "alice"
        /\ r.updated_at < now

(***************************************************************************)
(* Traversals: the first page is asked for without a cursor, each next     *)
(* page with the cursor the page before returned, until has_more is false. *)
(* A traversal is the rows collected and whether it came to its end within *)
(* the number of pages allowed.                                            *)
(***************************************************************************)
Walk(rows, done) == [rows |-> rows, done |-> done]

RECURSIVE ThreadWalks(_, _, _, _, _)
ThreadWalks(user_id, order, limit, after, pages) ==
    IF pages = 0 THEN {Walk(<<>>, FALSE)}
    ELSE UNION {
        IF ~got.data.has_more THEN {Walk(got.data.data, TRUE)}
        ELSE {Walk(got.data.data \o w.rows, w.done) :
                w \in ThreadWalks(user_id, order, limit, got.data.after,
                                  pages - 1)} :
        got \in load_threads(chat, limit, after, order, user_id)}

RECURSIVE ItemWalks(_, _, _, _, _, _)
ItemWalks(thread_id, user_id, order, limit, after, pages) ==
    IF pages = 0 THEN {Walk(<<>>, FALSE)}
    ELSE UNION {
        IF ~got.data.has_more THEN {Walk(got.data.data, TRUE)}
        ELSE {Walk(got.data.data \o w.rows, w.done) :
                w \in ItemWalks(thread_id, user_id, order, limit,
                                got.data.after, pages - 1)} :
        got \in load_thread_items(chat, thread_id, after, limit, order,
                                  user_id)}

\* Each of the ids of S once, and no other.
ExactlyOnce(rows, S) ==
    /\ Len(rows) = Cardinality(S)
    /\ {rows[i].id : i \in 1..Len(rows)} = S

InOrder(rows, column, order) ==
    \A i, j \in 1..Len(rows) :
        i < j => IF order = "desc" THEN rows[i][column] >= rows[j][column]
                                   ELSE rows[i][column] <= rows[j][column]

(***************************************************************************)
(* C16: pagination of the thread list is complete: for order asc and desc  *)
(* and any limit >= 1, following the cursors from the first page until     *)
(* has_more is false yields every thread of the owner exactly once, in the *)
(* requested order of updated_at.  Stated here for the owners whose        *)
(* threads all differ in updated_at, where the order leaves no choice.     *)
(***************************************************************************)
Distinct(S, column) == \A x, y \in S : x[column] = y[column] => x = y

C16_ThreadPagesComplete ==
    \A user_id \in PathUsers, order \in Orders, limit \in Limits :
        LET mine == {r \in chat_threads : r.user_id = user_id} IN
        Distinct(mine, UpdatedAt) =>
        \A w \in ThreadWalks(user_id, order, limit, None,
                             Cardinality(mine) + 1) :
            /\ w.done
            /\ ExactlyOnce(w.rows, {r.id : r \in mine})
            /\ InOrder(w.rows, UpdatedAt, order)

(***************************************************************************)
(* C17: pagination of the messages of a thread is complete: for order asc  *)
(* and desc and any limit >= 1, following the cursors from the first page  *)
(* until has_more is false yields every message of the thread exactly      *)
(* once, in the requested order of created_at.  Stated here for the        *)
(* threads whose messages are user or assistant messages that differ in    *)
(* created_at and were created in the order of their ids.                  *)
(***************************************************************************)
Plain(rows) ==
    /\ \A m \in rows : m.role \in {"user", "assistant"}
    /\ \A m1, m2 \in rows : m1.id < m2.id => m1.created_at < m2.created_at

C17_ItemPagesComplete ==
    \A r \in chat_threads, order \in Orders, limit \in Limits :
        LET rows == {m \in chat_messages : m.thread_id = r.id} IN
        Plain(rows) =>
        \A w \in ItemWalks(r.id, r.user_id, order, limit, NoItemId,
                           Cardinality(rows) + 1) :
            /\ w.done
            /\ ExactlyOnce(w.rows, {str(m.id) : m \in rows})
            /\ InOrder(w.rows, CreatedAt, order)

(***************************************************************************)
(* C18: in the chat store every message belongs to an existing thread: a   *)
(* successful delete_thread(owner, thread_id) removes the thread and all   *)
(* of its messages in one step and nothing else, and delete_thread raises  *)
(* NotFoundError and removes nothing when the caller owns no thread with   *)
(* that id.                                                                *)
(***************************************************************************)
C18_MessagesHaveThreads ==
    /\ \A m \in chat_messages : \E r \in chat_threads : r.id = m.thread_id
    /\ \A user_id \in PathUsers, thread_id \in ThreadIds :
        LET got == delete_thread(chat, thread_id, user_id) IN
        IF \E r \in chat_threads : r.id = thread_id /\ r.user_id = user_id
        THEN /\ got.ok
             /\ got.store.threads = {r \in chat_threads : r.id # thread_id}
             /\ got.store.messages =
                    {m \in chat_messages : m.thread_id # thread_id}
             /\ \A m \in got.store.messages :
                    \E r \in got.store.threads : r.id = m.thread_id
        ELSE /\ ~got.ok
             /\ got.error = <<"Thread", thread_id, "not found">>
             /\ got.store = chat

\* A thread was deleted and two messages went with it, while the other
\* thread is still there.
C18_Witness ==
    /\ req.op = "delete_thread"
    /\ resp.ok
    /\ Cardinality(resp.gone) = 2
    /\ chat_threads # {}
    /\ \A r \in chat_threads : r.id # req.thread_id

(***************************************************************************)
(* C19: every error response of the task API, whatever the failure (no     *)
(* session 401, another user's path 403, no such task 404, a body or a     *)
(* query that fails validation, an unexpected fault 500), has the one      *)
(* shape of ErrorResponse: an error code and a message that are not empty. *)
(* It is stated of the response to every request a client may send next,   *)
(* and to every request during which the database fails.                   *)
(***************************************************************************)
ErrorResponses ==
    {out.resp : out \in UNION {Outcomes(cred[1], cred[2]) : cred \in Creds}}
    \cup {storage_failure(db, now, cred[1], cred[2], point).resp :
            cred \in Creds, point \in FaultPoints}

C19_OneErrorShape ==
    \A response \in ErrorResponses :
        response.status >= 400 =>
            /\ response.shape = "ErrorResponse"
            /\ response.error # ""
            /\ response.message # ""

(***************************************************************************)
(* C20: a storage failure or any other unexpected fault during a request   *)
(* is answered with an internal error (a status of 500 or more) whose body *)
(* holds nothing of the text of the exception, in the task backend and in  *)
(* the chatbot backend.  It is stated of the faults that strike after the  *)
(* caller has been verified: a failing statement of a task endpoint, and   *)
(* process raising SQLAlchemyError or an exception of no special class.    *)
(***************************************************************************)
Contains(string, part) ==
    \E i \in 1..(Len(string) - Len(part) + 1) :
        SubSeq(string, i, i + Len(part) - 1) = part

\* The body of the response quotes the text of the exception.
Exposes(response, text) ==
    /\ text # ""
    /\ \/ Contains(response.message, text)
       \/ response.shape = "ChatbotError" /\ response.details = text

Faults == {result \in ProcessResults :
                result.raises \in {"SQLAlchemyError", "Exception"}}

C20_FaultsAreGeneric ==
    /\ \A cred \in Creds :
        verify_user_ownership(now, cred[2], cred[1]).ok =>
            LET response ==
                    storage_failure(db, now, cred[1], cred[2], "tasks").resp
            IN  /\ response.status >= 500
                /\ \A text \in ExceptionTexts : ~Exposes(response, text)
    /\ \A token \in Tokens, result \in Faults :
        verify_token(now, Bearer(token)).ok =>
            LET response ==
                    chatkit_endpoint(db, now, token, "msg", result).resp
            IN  /\ response.status >= 500
                /\ ~Exposes(response, result.text)

(***************************************************************************)
(* C21: save_item on the id of a message in a thread of the caller         *)
(* replaces the content of that message; on an id no message has it        *)
(* creates the message; on a message in a thread of another owner it       *)
(* fails with NotFound and changes nothing.                                *)
(***************************************************************************)
Contents == {"c", "d"}

C21_SaveItem ==
    \A user_id \in PathUsers, id \in MessageIds, content \in Contents :
        LET saved == save_item(chat, str(id), content, user_id)
            owners == MessageOwners(chat, id)
        IN  /\ user_id \in owners =>
                /\ saved.ok
                /\ \E m \in saved.store.messages :
                        m.id = id /\ m.content = dumps(content)
            /\ owners = {} =>
                /\ saved.ok
                /\ \E m \in saved.store.messages :
                        m.id = id /\ m.content = dumps(content)
            /\ (owners # {} /\ user_id \notin owners) => Refused(saved)

(***************************************************************************)
(* C22: in the TodoManager, after any sequence of add_todo, update_todo,   *)
(* toggle_complete and delete_todo, ids are unique and never reused: the   *)
(* k-th successful add_todo returns id k, starting at 1; delete_todo (and  *)
(* update_todo, toggle_complete) never lowers the counter; an add_todo     *)
(* that fails consumes no id.                                              *)
(***************************************************************************)
C22_IdsNeverReused ==
    /\ \A k \in 1..Len(issued) : issued[k] = k
    /\ _next_id = Len(issued) + 1
    /\ \A k \in DOMAIN _todos : _todos[k].id = k /\ k \in 1..Len(issued)
    /\ \A input \in AddInputs :
        LET added == add_todo(manager, input[1], input[2]) IN
        IF added.ok
        THEN /\ added.value.id = Len(issued) + 1
             /\ added.value.id \notin DOMAIN _todos
             /\ added.manager._next_id = _next_id + 1
        ELSE added.manager = manager
    /\ \A todo_id \in TodoIds :
        /\ delete_todo(manager, todo_id).manager._next_id = _next_id
        /\ toggle_complete(manager, todo_id).manager._next_id = _next_id
        /\ \A input \in TodoUpdateInputs :
            update_todo(manager, todo_id, input[1], input[2])
                .manager._next_id = _next_id

\* The third todo is added when the first two have been deleted, after an
\* add_todo that failed.
C22_Witness ==
    /\ req.op = "add_todo"
    /\ resp.ok
    /\ resp.value.id = 3
    /\ DOMAIN _todos = {3}

(***************************************************************************)
(* C30: an update_todo that raises ValueError (unknown id, empty or        *)
(* over-long title, over-long description) leaves the todos unchanged; in  *)
(* particular a call with a valid new title and a description of more than *)
(* 1000 characters does not change the stored title.                       *)
(***************************************************************************)
C30_FailedUpdateChangesNothing ==
    \A todo_id \in TodoIds, input \in TodoUpdateInputs :
        LET updated == update_todo(manager, todo_id, input[1], input[2]) IN
        ~updated.ok => updated.manager = manager

(***************************************************************************)
(* C25: a page of load_threads or of load_thread_items holds at most limit *)
(* rows; has_more is true exactly when more rows match the predicate of    *)
(* the page than the limit lets it return; the next cursor is the id of    *)
(* the last row returned when has_more is true, and is null exactly when   *)
(* has_more is false.  It is stated of the pages the two methods return.   *)
(***************************************************************************)
PageShape(page, matching, limit, null) ==
    /\ Len(page.data) <= limit
    /\ page.has_more <=> Cardinality(matching) > limit
    /\ page.has_more =>
        /\ Len(page.data) > 0
        /\ page.after = page.data[Len(page.data)].id
    /\ page.after = null <=> ~page.has_more

C25_PageShape ==
    \A user_id \in PathUsers, limit \in Limits, order \in Orders :
        /\ \A after \in ThreadIds \cup {None} :
            \A got \in load_threads(chat, limit, after, order, user_id) :
                PageShape(got.data, ThreadsAfter(chat, user_id, after),
                          limit, None)
        /\ \A r \in chat_threads, after \in Cursors :
            r.user_id = user_id =>
                \A got \in load_thread_items(chat, r.id, after, limit,
                                             order, user_id) :
                    got.ok =>
                        PageShape(got.data, MessagesAfter(chat, r.id, after),
                                  limit, NoItemId)

(***************************************************************************)
(* C27: the page load_threads returns to an owner B depends only on the    *)
(* threads of B and on the arguments of the call: two stores that differ   *)
(* only in the threads of another owner A (the updated_at of A's threads   *)
(* included) give B the same pages for every cursor B can pass, the id of  *)
(* one of A's threads included.  The other store is the one holding the    *)
(* threads of B alone.                                                     *)
(***************************************************************************)
Pages(results) == {Seen(got) : got \in results}

C27_ListDependsOnOwnThreads ==
    \A B \in PathUsers, limit \in Limits, order \in Orders :
        \A after \in ThreadIds \cup {None} :
            Pages(load_threads(chat, limit, after, order, B))
                = Pages(load_threads(OwnStore(B), limit, after, order, B))

(***************************************************************************)
(* C28: every message add_thread_item has stored in a thread, whatever its *)
(* role (user, assistant or system), is returned to the owner of the       *)
(* thread by load_thread_items and by load_item with the role it was       *)
(* stored with.                                                            *)
(***************************************************************************)
C28_RoleRoundTrip ==
    \A m \in chat_messages, r \in chat_threads :
        r.id = m.thread_id =>
            /\ LET got == load_item(chat, str(m.id), r.user_id) IN
                got.ok /\ got.data.id = str(m.id) /\ got.data.role = m.role
            /\ \A got \in load_thread_items(chat, r.id, NoItemId,
                                            Cardinality(chat_messages), "asc",
                                            r.user_id) :
                /\ got.ok
                /\ \E i \in 1..Len(got.data.data) :
                    /\ got.data.data[i].id = str(m.id)
                    /\ got.data.data[i].role = m.role

(***************************************************************************)
(* C29: a request of the task API that ends in failure (401 from the       *)
(* verifier, 403 from the ownership guard, 404 from the owner-scoped       *)
(* lookup, or a validation failure) leaves the tasks table unchanged: no   *)
(* row is created, modified or deleted, no updated_at is refreshed and no  *)
(* id is consumed.                                                         *)
(***************************************************************************)
C29_FailureChangesNothing ==
    \A cred \in Creds :
        \A out \in Outcomes(cred[1], cred[2]) :
            out.resp.status >= 400 =>
                /\ out.resp.status \in {401, 403, 404, 422}
                /\ out.db = db

\* An update of another owner's task has been answered 404, at a time when
\* a write would have refreshed the updated_at of the row.
C29_Witness ==
    /\ req.op = "update"
    /\ resp.status = 404
    /\ \E t \in tasks :
        t.id = req.task_id /\ t.user_id # req.user_id /\ t.updated_at < now

\* Two handlers on the same task, one an update and one a toggle.
RacingPairs ==
    {pair \in Processes \X Processes :
        /\ requests[pair[1]].op = "update"
        /\ requests[pair[2]].op = "toggle"
        /\ requests[pair[1]].task_id = requests[pair[2]].task_id}

\* C23: the application layer has no version check, so a lost update is
\* reachable.  Whenever an update or a toggle_completion is about to commit
\* and the row of its task is still in the table, the commit succeeds and
\* writes the handler's values over the row, whether or not the row is still
\* the one the handler read; the witness is the race this allows.
C23_NoVersionCheck ==
    \A process \in Processes :
        LET request == requests[process]
            flushed == flush(tasks, request) IN
        (/\ request.pc = "modified"
         /\ \E t \in tasks : t.id = request.task.id)
            => /\ flushed.ok
               /\ \A t \in flushed.tasks :
                      t.id = request.task.id =>
                          \A column \in Dirty(request) :
                              t[column] = request.loaded[column]

\* An update and a toggle of one task, begun from the same row, have both
\* returned 200, and the row does not hold what both wrote: the toggle
\* assigned first and committed last, so the updated_at the update wrote is
\* gone and the row carries the update's text under a time older than it.
\* The UPDATE sets the dirty columns only, so the text and the flag survive.
C23_Witness ==
    \E pair \in RacingPairs :
        LET update == requests[pair[1]]
            toggle == requests[pair[2]] IN
        /\ update.pc = "done" /\ update.status = 200
        /\ toggle.pc = "done" /\ toggle.status = 200
        /\ update.task = toggle.task
        /\ \E t \in tasks :
               /\ t.id = update.task_id
               /\ t.updated_at < update.loaded.updated_at
               /\ t.updated_at = toggle.loaded.updated_at
               /\ t.title = update.loaded.title
               /\ t.completed = toggle.loaded.completed

\* A mutation and a delete of the same task, both with their response ready.
FinishedAgainstDelete ==
    {pair \in Processes \X Processes :
        /\ requests[pair[1]].op \in Mutations
        /\ requests[pair[2]].op = "delete"
        /\ requests[pair[1]].task_id = requests[pair[2]].task_id
        /\ requests[pair[1]].pc = "done"
        /\ requests[pair[2]].pc = "done"
        /\ requests[pair[2]].status = 204}

\* C24: an update or toggle_completion that runs together with a delete of
\* the same task ends as one of the two serial orders: the delete answers 204
\* and the mutation answers 200 (it ran first) or 404 (it ran second), and
\* the row of a deleted id is never in the table again.
C24_SerialOutcomes ==
    /\ \A pair \in FinishedAgainstDelete :
           requests[pair[1]].status \in {200, 404}
    /\ \A t \in tasks : t.id \notin deleted

(***************************************************************************)
(* add_thread_item statement by statement.  Inside pool.acquire() the      *)
(* method awaits three statements: the SELECT of the owner check, the      *)
(* INSERT of the message, the UPDATE of the thread's updated_at.  No       *)
(* conn.transaction() surrounds them, so each is committed as it ends and   *)
(* other connections run between them; an exception after the INSERT        *)
(* leaves the inserted row.                                                 *)
(***************************************************************************)
AddMaxTime == 1
AddMaxMessages == 2
AddThread == "th1"

\* The connection after the owner check: the row the INSERT will write.
Checked(thread_id, item_type, content, created_at) ==
    [pc |-> "checked", thread_id |-> thread_id,
     item |-> [id |-> 0, thread_id |-> thread_id, role |-> Role(item_type),
               content |-> IF Role(item_type) = "system"
                           THEN ItemText(item_type)
                           ELSE dumps(content),
               created_at |-> created_at]]

\* The method has raised: the exception leaves the async with block.
Raised(connection) == [connections[connection] EXCEPT !.pc = "raised"]

AddTick ==
    /\ now < AddMaxTime
    /\ now' = now + 1
    /\ UNCHANGED <<tasks, next_id, req, resp, deleted, chat_vars, cli_vars,
                   step_vars>>

\* SELECT user_id FROM chat_threads WHERE id = $1, and the NotFoundError.
CheckOwner(connection, user_id, thread_id, item_type, created_at) ==
    /\ connections[connection].pc = "closed"
    /\ connections' = [connections EXCEPT ![connection] =
           IF ~OwnsThread(chat, thread_id, user_id)
           THEN [Closed EXCEPT !.pc = "raised", !.thread_id = thread_id]
           ELSE Checked(thread_id, item_type, "c", created_at)]
    /\ UNCHANGED <<tasks, next_id, now, req, resp, deleted, requests,
                   chat_vars, cli_vars>>

\* INSERT INTO chat_messages (thread_id, role, content, created_at)
InsertMessage(connection) ==
    LET item == [connections[connection].item EXCEPT !.id = next_message_id] IN
    /\ connections[connection].pc = "checked"
    /\ next_message_id <= AddMaxMessages
    /\ chat_messages' = chat_messages \cup {item}
    /\ next_message_id' = next_message_id + 1
    /\ connections' = [connections EXCEPT ![connection] =
           [@ EXCEPT !.pc = "inserted", !.item = item]]
    /\ UNCHANGED <<tasks, next_id, now, req, resp, deleted, requests,
                   chat_threads, cli_vars>>

\* UPDATE chat_threads SET updated_at = $2 WHERE id = $1; the method returns.
UpdateThread(connection) ==
    LET item == connections[connection].item IN
    /\ connections[connection].pc = "inserted"
    /\ chat_threads' =
           {IF r.id = item.thread_id
            THEN [r EXCEPT !.updated_at = item.created_at]
            ELSE r : r \in chat_threads}
    /\ connections' = [connections EXCEPT ![connection] =
           [@ EXCEPT !.pc = "returned"]]
    /\ UNCHANGED <<tasks, next_id, now, req, resp, deleted, requests,
                   chat_messages, next_message_id, cli_vars>>

\* A statement of the method raises: the connection is lost, the statement
\* times out, the task is cancelled.
StatementFails(connection) ==
    /\ connections[connection].pc \in {"checked", "inserted"}
    /\ connections' = [connections EXCEPT ![connection] = Raised(connection)]
    /\ UNCHANGED <<tasks, next_id, now, req, resp, deleted, requests,
                   chat_vars, cli_vars>>

\* The end of the async with block: the connection goes back to the pool.
Release(connection) ==
    /\ connections[connection].pc \in {"returned", "raised"}
    /\ connections' = [connections EXCEPT ![connection] = Closed]
    /\ UNCHANGED <<tasks, next_id, now, req, resp, deleted, requests,
                   chat_vars, cli_vars>>

\* The thread is created, or saved again, while calls are in progress.
AddSaveThread ==
    \E user_id \in PathUsers :
        StoreServe(StoreCall("save_thread", user_id, AddThread, 0),
                   save_thread(chat, now, AddThread, now, user_id))

AddNext ==
    \/ AddTick
    \/ AddSaveThread
    \/ \E connection \in Connections, user_id \in PathUsers,
          created_at \in 0..now :
           CheckOwner(connection, user_id, AddThread, "UserMessageItem",
                      created_at)
    \/ \E connection \in Connections :
           \/ InsertMessage(connection)
           \/ UpdateThread(connection)
           \/ StatementFails(connection)
           \/ Release(connection)

SpecAdd == Init /\ [][AddNext]_vars

\* C26: add_thread_item stores the message and sets the thread's updated_at
\* to the message's created_at as one operation: in no state, a failure
\* between the two writes and other connections included, is the message of
\* a call in chat_messages while the thread's updated_at is not that time.
C26_MessageAndTimestampTogether ==
    \A connection \in Connections :
        LET call == connections[connection] IN
        (/\ call.pc \in {"inserted", "raised"}
         /\ call.item \in chat_messages)
            => \A r \in chat_threads :
                   r.id = call.thread_id => r.updated_at = call.item.created_at

====
